---- MODULE Spec2Model ----
(***************************************************************************)
(* Model of the parsers emitted by peggy-ts (the FailedExpectation-based   *)
(* lowering engine) and of the runtime that raises their diagnostics.      *)
(*                                                                         *)
(* A string is a sequence of one-character strings, so that startsWith,    *)
(* slice and length are the operations the emitted code performs.  Every   *)
(* procedure is the function the lowering emits for one grammar node; it   *)
(* maps the remaining input to a tagged success/failure record.            *)
(***************************************************************************)
EXTENDS Integers, Sequences, FiniteSets

VARIABLES
  grammar,   \* the grammar the parser was generated from
  input,     \* the argument of parse
  pc,        \* position in parse: start, called, rooted, scanned, done
  call,      \* a procedure invocation: node, text, result, locals of its loop
  result,    \* parse's result, the record the root procedure returned
  furthest,  \* parse's remainder, the shortest remainder seen by the scan
  retained,  \* parse's failedExpectations, those kept by the scan
  outcome,   \* what parse did: the payload returned or the error thrown
  registry,  \* Reusable.#directory as the latest call of toTypeScript left it
  outputs    \* the code each call of toTypeScript emitted, in order

vars == <<grammar, input, pc, call, result, furthest, retained, outcome,
          registry, outputs>>

(***************************************************************************)
(* Bounds of the model.                                                    *)
(***************************************************************************)
\* longest generated input over a two-character alphabet
MaxLen == 5

\* longest generated input over a three-character alphabet
MaxWide == 4

\* most calls of toTypeScript on one grammar
MaxRuns == 2

\* most elements of a generated sequence, most alternatives of a generated choice
MaxElements == 3

(***************************************************************************)
(* Strings.                                                                *)
(***************************************************************************)
\* String.prototype.startsWith
StartsWith(haystack, needle) ==
  /\ Len(needle) <= Len(haystack)
  /\ SubSeq(haystack, 1, Len(needle)) = needle

\* String.prototype.slice(start), start >= 0
Slice(value, start) ==
  IF start >= Len(value) THEN <<>> ELSE SubSeq(value, start + 1, Len(value))

\* String.prototype.slice(0, length)
SliceTo(value, length) ==
  IF length >= Len(value) THEN value ELSE SubSeq(value, 1, length)

\* all strings over alphabet of length at most n
RECURSIVE Strings(_, _)
Strings(alphabet, n) ==
  IF n = 0 THEN {<<>>}
  ELSE LET shorter == Strings(alphabet, n - 1)
       IN  shorter \cup {Append(s, c) : s \in {t \in shorter : Len(t) = n - 1}, c \in alphabet}

\* the suffixes of a string, the only texts a procedure is ever invoked on
Suffixes(s) == {Slice(s, i) : i \in 0..Len(s)}

(***************************************************************************)
(* Grammar nodes as the lowering receives them (Peggy's AST).              *)
(***************************************************************************)
\* repeated.max of an unbounded repetition
NoMax == -1

\* repeated.min of an exact count, e|n|
NoMin == -2

\* labeled.label of a pick, @e
NoLabel == "null"

\* repeated.delimiter of a repetition without delimiter
NoDelimiter == [type |-> "none"]

literal(value) == [type |-> "literal", value |-> value]

any == [type |-> "any"]

\* parts is a sequence of <<lo, hi>> ranges; a single character c is <<c, c>>
class(parts, inverted) ==
  [type |-> "class", parts |-> parts, inverted |-> inverted, ignoreCase |-> FALSE]

\* a class with the i flag, [...]i
classIgnoreCase(parts, inverted) ==
  [type |-> "class", parts |-> parts, inverted |-> inverted, ignoreCase |-> TRUE]

rule_ref(name) == [type |-> "rule_ref", name |-> name]

choice(alternatives) == [type |-> "choice", alternatives |-> alternatives]

sequence(elements) == [type |-> "sequence", elements |-> elements]

optional(expression) == [type |-> "optional", expression |-> expression]

zero_or_more(expression) == [type |-> "zero_or_more", expression |-> expression]

one_or_more(expression) == [type |-> "one_or_more", expression |-> expression]

repeated(expression, min, max, delimiter) ==
  [type |-> "repeated", expression |-> expression, min |-> min, max |-> max,
   delimiter |-> delimiter]

simple_not(expression) == [type |-> "simple_not", expression |-> expression]

\* a rule's expression when the rule has a display name
named(name, expression) == [type |-> "named", name |-> name, expression |-> expression]

group(expression) == [type |-> "group", expression |-> expression]

\* $e, a node of type "text"
text_node(expression) == [type |-> "text", expression |-> expression]

\* label:e, and @e with NoLabel
labeled(label, expression) ==
  [type |-> "labeled", label |-> label, expression |-> expression]

\* e { code }
action(expression, code) == [type |-> "action", expression |-> expression, code |-> code]

rule(name, expression) == [type |-> "rule", name |-> name, expression |-> expression]

IsRepetition(origin) == origin.type \in {"zero_or_more", "one_or_more", "repeated"}

\* the arguments the ZeroOrMore, OneOrMore and Repeated constructors give
\* Repetition; a repeated without min (an exact count) has its max as min
RepetitionMin(origin) ==
  CASE origin.type = "zero_or_more" -> 0
    [] origin.type = "one_or_more" -> 1
    [] OTHER -> IF origin.min = NoMin THEN origin.max ELSE origin.min

RepetitionMax(origin) ==
  IF origin.type = "repeated" THEN origin.max ELSE NoMax

RepetitionDelimiter(origin) ==
  IF origin.type = "repeated" THEN origin.delimiter ELSE NoDelimiter

\* grammar.rules.find((r) => r.name === origin.name)
FindRule(g, name) ==
  g.rules[CHOOSE i \in 1..Len(g.rules) : g.rules[i].name = name]

(***************************************************************************)
(* Character codes: the order String comparison and the class ranges use.  *)
(***************************************************************************)
\* the characters of code 32 to 95
AsciiLow ==
  <<" ", "!", "\"", "#", "$", "%", "&", "'", "(", ")", "*", "+", ",", "-", ".", "/",
    "0", "1", "2", "3", "4", "5", "6", "7", "8", "9", ":", ";", "<", "=", ">", "?",
    "@", "A", "B", "C", "D", "E", "F", "G", "H", "I", "J", "K", "L", "M", "N", "O",
    "P", "Q", "R", "S", "T", "U", "V", "W", "X", "Y", "Z", "[", "\\", "]", "^", "_">>

\* the characters of code 97 to 126
AsciiHigh ==
  <<"a", "b", "c", "d", "e", "f", "g", "h", "i", "j", "k", "l", "m", "n", "o",
    "p", "q", "r", "s", "t", "u", "v", "w", "x", "y", "z", "{", "|", "}", "~">>

\* String.prototype.charCodeAt(0)
CharCode(c) ==
  IF c = "\t" THEN 9
  ELSE IF c = "\n" THEN 10
  ELSE IF c = "\r" THEN 13
  ELSE IF \E i \in 1..Len(AsciiHigh) : AsciiHigh[i] = c
       THEN 96 + (CHOOSE i \in 1..Len(AsciiHigh) : AsciiHigh[i] = c)
       ELSE 31 + (CHOOSE i \in 1..Len(AsciiLow) : AsciiLow[i] = c)

(***************************************************************************)
(* Expectations and results.                                               *)
(***************************************************************************)
\* Expectation.from interns by (type, value): equal records are one instance
Expectation(type, value) == [type |-> type, value |-> value]

FailedExpectation(expectation, remainder) ==
  [expectation |-> expectation, remainder |-> remainder]

Success(value, remainder, failedExpectations) ==
  [success |-> TRUE, value |-> value, remainder |-> remainder,
   failedExpectations |-> failedExpectations]

Failure(remainder, failedExpectations) ==
  [success |-> FALSE, remainder |-> remainder,
   failedExpectations |-> failedExpectations]

\* payloads: a string, an array of payloads, null
StringValue(s) == [string |-> s]

ArrayValue(items) == [array |-> items]

NullLiteral == [null |-> TRUE]

UndefinedLiteral == [undefined |-> TRUE]

AnyCharacter == <<"a", "n", "y", " ", "c", "h", "a", "r", "a", "c", "t", "e", "r">>

EndOfInput == <<"e", "n", "d", " ", "o", "f", " ", "i", "n", "p", "u", "t">>

(***************************************************************************)
(* Leaf procedures.                                                        *)
(***************************************************************************)
\* the length of the longest common prefix of two strings
RECURSIVE CommonPrefix(_, _)
CommonPrefix(a, b) ==
  IF a = <<>> \/ b = <<>> \/ Head(a) # Head(b) THEN 0
  ELSE 1 + CommonPrefix(Tail(a), Tail(b))

\* a Literal whose failure is recorded at the first character that differs
LiteralPartial(value, text) ==
  IF StartsWith(text, value)
  THEN Success(StringValue(value), Slice(text, Len(value)), <<>>)
  ELSE Failure(Slice(text, CommonPrefix(value, text)),
         <<FailedExpectation(Expectation("literal", value),
                             Slice(text, CommonPrefix(value, text)))>>)

\* a Literal that slices one character off whatever the literal's length
LiteralSliceOne(value, text) ==
  IF StartsWith(text, value)
  THEN Success(StringValue(value), Slice(text, 1), <<>>)
  ELSE Failure(text, <<FailedExpectation(Expectation("literal", value), text)>>)

\* the body the Literal constructor emits
Literal(value, text) ==
  IF StartsWith(text, value)
  THEN Success(StringValue(value), Slice(text, Len(value)), <<>>)
  ELSE Failure(text, <<FailedExpectation(Expectation("literal", value), text)>>)

\* the body the Any constructor emits
Any(text) ==
  IF Len(text) > 0
  THEN Success(StringValue(SliceTo(text, 1)), Slice(text, 1), <<>>)
  ELSE Failure(text, <<FailedExpectation(Expectation("any", AnyCharacter), text)>>)

\* RegExpLiteral.escapeClassCharacter on the characters of the model
escapeClassCharacter(c) ==
  IF c \in {"\\", "/", "]", "^", "-"} THEN <<"\\", c>>
  ELSE IF c = "\t" THEN <<"\\", "t">>
  ELSE IF c = "\n" THEN <<"\\", "n">>
  ELSE IF c = "\r" THEN <<"\\", "r">>
  ELSE <<c>>

\* the parts of a class joined as toRegExpString renders them
RECURSIVE ClassParts(_)
ClassParts(parts) ==
  IF parts = <<>> THEN <<>>
  ELSE LET part == Head(parts)
       IN  (IF Len(part) = 2
            THEN escapeClassCharacter(part[1]) \o <<"-">> \o escapeClassCharacter(part[2])
            ELSE escapeClassCharacter(part[1]))
           \o ClassParts(Tail(parts))

\* new RegExpLiteral(cls).toCode(): /^[...]/g, or /^[...]/gi
RegExpLiteral(cls) ==
  <<"/", "^", "[">> \o (IF cls.inverted THEN <<"^">> ELSE <<>>)
    \o ClassParts(cls.parts) \o <<"]", "/", "g">>
    \o (IF cls.ignoreCase THEN <<"i">> ELSE <<>>)

\* /^[...]/g.test(text)
Match(cls, text) ==
  /\ Len(text) > 0
  /\ LET code == CharCode(text[1])
         inParts ==
           \E i \in 1..Len(cls.parts) :
             LET part == cls.parts[i]
             IN  IF Len(part) = 2
                 THEN CharCode(part[1]) <= code /\ code <= CharCode(part[2])
                 ELSE part[1] = text[1]
     IN  inParts # cls.inverted

\* the body the Class constructor emits
Class(cls, text) ==
  IF Match(cls, text)
  THEN Success(StringValue(SliceTo(text, 1)), Slice(text, 1), <<>>)
  ELSE Failure(text,
         <<FailedExpectation(Expectation("class", RegExpLiteral(cls)), text)>>)

(***************************************************************************)
(* Runtime: locations, ranges and text.                                    *)
(***************************************************************************)
\* options.grammarSource of the default ParseOptions
NoSource == "undefined"

\* a getLine loop that does not skip the line feed after a carriage return
RECURSIVE getLineLoopEach(_, _, _, _)
getLineLoopEach(text, offset, i, line) ==
  IF ~(i < offset) THEN line
  ELSE IF i < Len(text) /\ text[i + 1] \in {"\r", "\n"}
       THEN getLineLoopEach(text, offset, i + 1, line + 1)
       ELSE getLineLoopEach(text, offset, i + 1, line)

\* runtime.getLine: the for loop from index i (0-based) with the line so far
RECURSIVE getLineLoop(_, _, _, _)
getLineLoop(text, offset, i, line) ==
  IF ~(i < offset) THEN line
  ELSE IF i < Len(text) /\ text[i + 1] = "\r"
       THEN IF i + 1 < Len(text) /\ text[i + 2] = "\n"
            THEN getLineLoop(text, offset, i + 2, line + 1)
            ELSE getLineLoop(text, offset, i + 1, line + 1)
       ELSE IF i < Len(text) /\ text[i + 1] = "\n"
            THEN getLineLoop(text, offset, i + 1, line + 1)
            ELSE getLineLoop(text, offset, i + 1, line)

getLine(text, offset) == getLineLoop(text, offset, 0, 1)

\* runtime.getColumn: the for loop from index i down, with the column so far
RECURSIVE getColumnLoop(_, _, _)
getColumnLoop(text, i, column) ==
  IF ~(i > 0) THEN column
  ELSE IF i <= Len(text) /\ text[i] \in {"\n", "\r"}
       THEN column
       ELSE getColumnLoop(text, i - 1, column + 1)

getColumn(text, offset) == getColumnLoop(text, offset, 1)

\* runtime.getLocation
getLocation(source, text, start, remainder) ==
  [source |-> source,
   start |-> [offset |-> Len(text) - Len(start),
              line |-> getLine(text, Len(text) - Len(start)),
              column |-> getColumn(text, Len(text) - Len(start))],
   end |-> [offset |-> Len(text) - Len(remainder),
            line |-> getLine(text, Len(text) - Len(remainder)),
            column |-> getColumn(text, Len(text) - Len(remainder))]]

\* runtime.getRange
getRange(source, text, start, remainder) ==
  [source |-> source, start |-> Len(text) - Len(start),
   end |-> Len(text) - Len(remainder)]

\* a getText that always slices up to -remainder.length, which is 0 for an
\* empty remainder
getTextNegated(start, remainder) ==
  SliceTo(start, IF Len(remainder) > 0 THEN Len(start) - Len(remainder) ELSE 0)

\* runtime.getText: start.slice(0, -remainder.length), or start.slice(0, undefined)
getText(start, remainder) ==
  IF Len(remainder) > 0
  THEN SliceTo(start, IF Len(start) - Len(remainder) > 0
                      THEN Len(start) - Len(remainder) ELSE 0)
  ELSE start

(***************************************************************************)
(* Native patterns.  toRegExpString yields the regular expression the       *)
(* emitted text denotes, as a term: characters, ".", a class, a            *)
(* concatenation, an alternation "(a|b)", a quantified group "(a){m,n}"    *)
(* and a negative lookahead "(?!a)".                                       *)
(***************************************************************************)
RECURSIVE CanRepresent(_, _, _)
\* a toRegExpString that takes a class with the i flag wherever it is
CanRepresentNested(g, origin, parents) ==
  IF origin \in parents THEN FALSE
  ELSE CASE origin.type \in {"rule", "labeled", "named", "text", "group", "optional",
                             "simple_not", "zero_or_more", "one_or_more"} ->
              CanRepresent(g, origin.expression, parents \cup {origin})
         [] origin.type = "rule_ref" ->
              CanRepresent(g, FindRule(g, origin.name), parents \cup {origin})
         [] origin.type = "choice" ->
              \A i \in 1..Len(origin.alternatives) :
                CanRepresent(g, origin.alternatives[i], parents \cup {origin})
         [] origin.type = "sequence" ->
              \A i \in 1..Len(origin.elements) :
                CanRepresent(g, origin.elements[i], parents \cup {origin})
         [] origin.type = "repeated" ->
              /\ origin.delimiter # NoDelimiter =>
                   /\ ~(origin.max # NoMax /\ origin.max < 2)
                   /\ CanRepresent(g, origin.delimiter, parents \cup {origin})
              /\ CanRepresent(g, origin.expression, parents \cup {origin})
         [] origin.type \in {"literal", "any", "class"} -> TRUE
         [] OTHER -> FALSE

\* whether RegExpLiteral.toRegExpString returns instead of throwing
CanRepresent(g, origin, parents) ==
  IF origin \in parents THEN FALSE
  ELSE CASE origin.type \in {"rule", "labeled", "named", "text", "group", "optional",
                             "simple_not", "zero_or_more", "one_or_more"} ->
              CanRepresent(g, origin.expression, parents \cup {origin})
         [] origin.type = "rule_ref" ->
              CanRepresent(g, FindRule(g, origin.name), parents \cup {origin})
         [] origin.type = "choice" ->
              \A i \in 1..Len(origin.alternatives) :
                CanRepresent(g, origin.alternatives[i], parents \cup {origin})
         [] origin.type = "sequence" ->
              \A i \in 1..Len(origin.elements) :
                CanRepresent(g, origin.elements[i], parents \cup {origin})
         [] origin.type = "repeated" ->
              /\ origin.delimiter # NoDelimiter =>
                   /\ ~(origin.max # NoMax /\ origin.max < 2)
                   /\ CanRepresent(g, origin.delimiter, parents \cup {origin})
              /\ CanRepresent(g, origin.expression, parents \cup {origin})
         [] origin.type \in {"literal", "any"} -> TRUE
         [] origin.type = "class" -> ~(origin.ignoreCase /\ parents # {})
         [] OTHER -> FALSE

\* "(item){min,max}"; "(item)?" is {0,1}, "(item)*" is {0,} and "(item)+" is {1,}
Quantified(item, min, max) == [re |-> "quant", item |-> item, min |-> min, max |-> max]

Concatenated(items) == [re |-> "cat", items |-> items]

\* RegExpLiteral.toRegExpString
RECURSIVE toRegExpString(_, _)
toRegExpString(g, origin) ==
  CASE origin.type \in {"rule", "labeled", "named", "text", "group"} ->
         toRegExpString(g, origin.expression)
    [] origin.type = "rule_ref" -> toRegExpString(g, FindRule(g, origin.name))
    [] origin.type = "choice" ->
         [re |-> "alt",
          items |-> [i \in 1..Len(origin.alternatives) |->
                       toRegExpString(g, origin.alternatives[i])]]
    [] origin.type = "sequence" ->
         Concatenated([i \in 1..Len(origin.elements) |->
                         toRegExpString(g, origin.elements[i])])
    [] origin.type = "literal" -> [re |-> "chars", value |-> origin.value]
    [] origin.type = "optional" ->
         Quantified(toRegExpString(g, origin.expression), 0, 1)
    [] origin.type = "simple_not" ->
         [re |-> "not", item |-> toRegExpString(g, origin.expression)]
    [] origin.type = "zero_or_more" ->
         Quantified(toRegExpString(g, origin.expression), 0, NoMax)
    [] origin.type = "one_or_more" ->
         Quantified(toRegExpString(g, origin.expression), 1, NoMax)
    [] origin.type = "repeated" ->
         LET expression == toRegExpString(g, origin.expression)
         IN  IF origin.delimiter # NoDelimiter
             THEN LET outerOptional == origin.min = NoMin \/ origin.min = 0
                      innerMin == IF origin.min > 0 THEN origin.min - 1 ELSE 0
                      innerMax == IF origin.max > 0 THEN origin.max - 1 ELSE NoMax
                      inner ==
                        Concatenated(
                          <<expression,
                            Quantified(
                              Concatenated(<<toRegExpString(g, origin.delimiter),
                                             expression>>),
                              innerMin, innerMax)>>)
                  IN  IF outerOptional THEN Quantified(inner, 0, 1) ELSE inner
             ELSE LET innerMin == IF origin.min > 0 THEN origin.min ELSE 0
                      innerMax == IF origin.max > 0 THEN origin.max ELSE NoMax
                  IN  Quantified(expression, innerMin, innerMax)
    [] origin.type = "any" -> [re |-> "dot"]
    [] origin.type = "class" -> [re |-> "set", cls |-> origin]

\* the characters "." does not match
LineTerminators == {"\n", "\r"}

\* String.prototype.match with a /^.../g pattern: the backtracking matcher.
\* Ends(re, text) lists what is left of text after each way re can match at
\* its start, the way tried first coming first.
RECURSIVE Ends(_, _)
RECURSIVE EndsEach(_, _)
RECURSIVE EndsConcatenated(_, _)
RECURSIVE EndsAlternatives(_, _)
RECURSIVE EndsQuantified(_, _, _, _)
RECURSIVE EndsQuantifiedEach(_, _, _, _)

Ends(re, text) ==
  CASE re.re = "chars" ->
         IF StartsWith(text, re.value) THEN <<Slice(text, Len(re.value))>> ELSE <<>>
    [] re.re = "dot" ->
         IF text # <<>> /\ text[1] \notin LineTerminators THEN <<Tail(text)>> ELSE <<>>
    [] re.re = "set" -> IF Match(re.cls, text) THEN <<Tail(text)>> ELSE <<>>
    [] re.re = "cat" -> EndsConcatenated(re.items, <<text>>)
    [] re.re = "alt" -> EndsAlternatives(re.items, text)
    [] re.re = "quant" -> EndsQuantified(re.item, re.min, re.max, text)
    [] re.re = "not" -> IF Ends(re.item, text) = <<>> THEN <<text>> ELSE <<>>

EndsEach(re, texts) ==
  IF texts = <<>> THEN <<>>
  ELSE Ends(re, Head(texts)) \o EndsEach(re, Tail(texts))

EndsConcatenated(items, texts) ==
  IF items = <<>> THEN texts
  ELSE EndsConcatenated(Tail(items), EndsEach(Head(items), texts))

EndsAlternatives(items, text) ==
  IF items = <<>> THEN <<>>
  ELSE Ends(Head(items), text) \o EndsAlternatives(Tail(items), text)

\* a greedy quantifier: one more iteration first, then none; an iteration
\* beyond min that matches nothing is rejected
EndsQuantified(item, min, max, text) ==
  IF max = 0 THEN <<text>>
  ELSE LET once == Ends(item, text)
           iterated == IF min = 0 THEN SelectSeq(once, LAMBDA m : m # text) ELSE once
           more == EndsQuantifiedEach(item, IF min > 0 THEN min - 1 ELSE 0,
                                      IF max = NoMax THEN NoMax ELSE max - 1, iterated)
       IN  more \o (IF min = 0 THEN <<text>> ELSE <<>>)

EndsQuantifiedEach(item, min, max, texts) ==
  IF texts = <<>> THEN <<>>
  ELSE EndsQuantified(item, min, max, Head(texts))
         \o EndsQuantifiedEach(item, min, max, Tail(texts))

\* text.match(/^.../g): the array of the one match, or null as <<>>
StringMatch(re, text) ==
  LET ends == Ends(re, text)
  IN  IF ends = <<>> THEN <<>> ELSE <<SliceTo(text, Len(text) - Len(ends[1]))>>

(***************************************************************************)
(* What the constructors compute: expectations and allowsZeroLength.       *)
(***************************************************************************)
\* [...new Set(items)]: the first occurrence of each item, in order
RECURSIVE Unique(_)
Unique(items) ==
  IF items = <<>> THEN <<>>
  ELSE LET front == Unique(SubSeq(items, 1, Len(items) - 1))
           last == items[Len(items)]
       IN  IF \E i \in 1..Len(front) : front[i] = last THEN front
           ELSE Append(front, last)

RECURSIVE Flat(_)
Flat(lists) == IF lists = <<>> THEN <<>> ELSE Head(lists) \o Flat(Tail(lists))

RECURSIVE AllowsZeroLength(_, _)
AllowsZeroLength(g, origin) ==
  CASE origin.type \in {"rule", "group", "named", "text", "labeled", "action",
                        "one_or_more"} ->
         AllowsZeroLength(g, origin.expression)
    [] origin.type = "rule_ref" -> AllowsZeroLength(g, FindRule(g, origin.name))
    [] origin.type = "choice" ->
         \E i \in 1..Len(origin.alternatives) :
           AllowsZeroLength(g, origin.alternatives[i])
    [] origin.type = "sequence" ->
         \A i \in 1..Len(origin.elements) : AllowsZeroLength(g, origin.elements[i])
    [] origin.type \in {"optional", "zero_or_more", "simple_not"} -> TRUE
    [] origin.type = "repeated" ->
         RepetitionMin(origin) = 0 \/ AllowsZeroLength(g, origin.expression)
    [] OTHER -> FALSE

\* the expectations field of Function.from(origin)
RECURSIVE Expectations(_, _)
RECURSIVE SequenceExpectations(_, _, _)
Expectations(g, origin) ==
  CASE origin.type \in {"rule", "group", "text", "labeled", "action", "optional",
                        "zero_or_more", "one_or_more", "repeated"} ->
         Expectations(g, origin.expression)
    [] origin.type = "rule_ref" -> Expectations(g, FindRule(g, origin.name))
    [] origin.type = "choice" ->
         Unique(Flat([i \in 1..Len(origin.alternatives) |->
                        Expectations(g, origin.alternatives[i])]))
    [] origin.type = "sequence" -> SequenceExpectations(g, origin.elements, <<>>)
    [] origin.type = "literal" -> <<Expectation("literal", origin.value)>>
    [] origin.type = "named" -> <<Expectation("other", origin.name)>>
    [] origin.type = "any" -> <<Expectation("any", AnyCharacter)>>
    [] origin.type = "class" -> <<Expectation("class", RegExpLiteral(origin))>>
    [] OTHER -> <<>>

\* the for loop of the Sequence constructor, from the element at the head
SequenceExpectations(g, elements, expectations) ==
  IF elements = <<>> THEN expectations
  ELSE LET merged == Unique(expectations \o Expectations(g, Head(elements)))
       IN  IF ~AllowsZeroLength(g, Head(elements)) THEN merged
           ELSE SequenceExpectations(g, Tail(elements), merged)

\* the FailedExpectations a pattern records: one per expectation of the
\* function it replaces, at the text it is tried on
Recorded(expectations, remainder) ==
  [i \in 1..Len(expectations) |-> FailedExpectation(expectations[i], remainder)]

(***************************************************************************)
(* Composite procedures.  FunctionFrom(g, origin, text) is the invocation  *)
(* of the procedure Function.from(origin) on text.                         *)
(***************************************************************************)
RECURSIVE FunctionFrom(_, _, _)
RECURSIVE FirstLoop(_, _, _, _)
RECURSIVE ReductionLoop(_, _, _, _, _, _, _)
RECURSIVE RepetitionLoop(_, _, _, _, _)

\* a loop over choices that goes on after a success and returns the last one
RECURSIVE FirstLoopLast(_, _, _, _)
FirstLoopLast(g, choices, text, failedExpectations) ==
  IF choices = <<>>
  THEN Failure(text, failedExpectations)
  ELSE LET res == FunctionFrom(g, Head(choices), text)
           pushed == failedExpectations \o res.failedExpectations
           later == FirstLoopLast(g, Tail(choices), text, pushed)
       IN  IF res.success /\ ~later.success
           THEN Success(res.value, res.remainder, pushed)
           ELSE later

\* First.toReturnCode: the for loop over choices, from the alternative at the head
FirstLoop(g, choices, text, failedExpectations) ==
  IF choices = <<>>
  THEN Failure(text, failedExpectations)
  ELSE LET res == FunctionFrom(g, Head(choices), text)
           pushed == failedExpectations \o res.failedExpectations
       IN  IF res.success
           THEN Success(res.value, res.remainder, pushed)
           ELSE FirstLoop(g, Tail(choices), text, pushed)

\* First.toReturnCode
First(g, funcs, text) == FirstLoop(g, funcs, text, <<>>)

\* Reduction.constructor: the index of the first @ element, 0 for none
PickIndex(elements) ==
  LET picks == {i \in 1..Len(elements) :
                  elements[i].type = "labeled" /\ elements[i].label = NoLabel}
  IN  IF picks = {} THEN 0 ELSE CHOOSE i \in picks : \A k \in picks : i <= k

\* Reduction.constructor: the element is not one of this.functions
Unvalued(elements, i, insideAction) ==
  \/ PickIndex(elements) # 0 /\ PickIndex(elements) # i
  \/ insideAction /\ elements[i].type # "labeled"

\* Reduction.constructor: the element is pushed as a RegExpLiteral
Replaced(g, elements, i, insideAction) ==
  Unvalued(elements, i, insideAction) /\ CanRepresent(g, elements[i], {})

\* Reduction.toReturnCode, from the i-th element; values are those of this.functions
ReductionLoop(g, elements, i, insideAction, remainder, failedExpectations, values) ==
  IF i > Len(elements)
  THEN Success(IF PickIndex(elements) # 0 THEN values[1] ELSE ArrayValue(values),
               remainder, failedExpectations)
  ELSE IF Replaced(g, elements, i, insideAction)
  THEN LET matches == StringMatch(toRegExpString(g, elements[i]), remainder)
           pushed == failedExpectations
                       \o Recorded(Expectations(g, elements[i]), remainder)
       IN  IF Len(matches) # 1
           THEN Failure(remainder, pushed)
           ELSE ReductionLoop(g, elements, i + 1, insideAction,
                              Slice(remainder, Len(matches[1])), pushed, values)
  ELSE LET res == FunctionFrom(g, elements[i], remainder)
           pushed == failedExpectations \o res.failedExpectations
       IN  IF ~res.success
           THEN Failure(res.remainder, pushed)
           ELSE ReductionLoop(g, elements, i + 1, insideAction, res.remainder, pushed,
                              IF Unvalued(elements, i, insideAction) THEN values
                              ELSE Append(values, res.value))

\* Reduction.toReturnCode
Reduction(g, elements, text, insideAction) ==
  ReductionLoop(g, elements, 1, insideAction, text, <<>>, <<>>)

\* a Capture whose remainder is the match itself
CaptureMatched(g, origin, text) ==
  LET matches == StringMatch(toRegExpString(g, origin), text)
  IN  IF Len(matches) = 1
      THEN Success(StringValue(matches[1]), matches[1], <<>>)
      ELSE Failure(text, Recorded(Expectations(g, origin), text))

\* Capture.toReturnCode
Capture(g, origin, text) ==
  LET matches == StringMatch(toRegExpString(g, origin), text)
  IN  IF Len(matches) = 1
      THEN Success(StringValue(matches[1]), Slice(text, Len(matches[1])), <<>>)
      ELSE Failure(text, Recorded(Expectations(g, origin), text))

\* Extract.toReturnCode
Extract(g, func, text) ==
  LET res == FunctionFrom(g, func, text)
  IN  IF res.success = TRUE
      THEN Success(StringValue(SliceTo(text, Len(text) - Len(res.remainder))),
                   res.remainder, res.failedExpectations)
      ELSE res

\* the body the Text constructor sets: a Capture, or an Extract when the
\* RegExpLiteral constructor throws
Text(g, origin, text) ==
  IF CanRepresent(g, origin.expression, {})
  THEN Capture(g, origin.expression, text)
  ELSE Extract(g, origin.expression, text)

\* Function.from(action.expression, true)
FunctionFromInside(g, origin, text) ==
  IF origin.type = "sequence"
  THEN Reduction(g, origin.elements, text, TRUE)
  ELSE FunctionFrom(g, origin, text)

\* the call Code.toCode emits, for the action code
\*   return { offset: offset(), range: range(), text: text(), location: location() }
Code(g, text, remainder) ==
  [offset |-> Len(g.input) - Len(text),
   range |-> getRange(NoSource, g.input, text, remainder),
   text |-> getText(text, remainder),
   location |-> getLocation(NoSource, g.input, text, remainder)]

\* Attempt with the then branch the Action constructor gives it
Action(g, origin, text) ==
  LET a == FunctionFromInside(g, origin.expression, text)
  IN  IF a.success
      THEN Success(Code(g, text, a.remainder), a.remainder, <<>>)
      ELSE a

\* the locals of Repetition.toReturnCode before the first iteration
RepetitionStart(text) ==
  [values |-> <<>>, failedExpectations |-> <<>>, remainder |-> text,
   r |-> text, result |-> Failure(text, <<>>), exit |-> "none"]

\* a delimiter tried before every element, the first one included
DelimiterAlways(delimiter, values) ==
  delimiter # NoDelimiter

\* if (values.length > 0), emitted only when the repetition has a delimiter
DelimiterDue(delimiter, values) ==
  delimiter # NoDelimiter /\ Len(values) > 0

\* a break that keeps what the delimiter consumed
BreakCommitted(st, r, res, failedExpectations, exit) ==
  [values |-> st.values, failedExpectations |-> failedExpectations,
   remainder |-> r, r |-> r, result |-> res, exit |-> exit]

\* the locals at a break: values and remainder stay as of the last full iteration
Break(st, r, res, failedExpectations, exit) ==
  [values |-> st.values, failedExpectations |-> failedExpectations,
   remainder |-> st.remainder, r |-> r, result |-> res, exit |-> exit]

\* remainder = result.remainder; values.push(result.value)
Advance(st, r, res, failedExpectations) ==
  [values |-> Append(st.values, res.value),
   failedExpectations |-> failedExpectations,
   remainder |-> res.remainder, r |-> r, result |-> res, exit |-> "max"]

\* while (values.length < max), or while (true)
Continue(max, values) == max = NoMax \/ Len(values) < max

\* one pass through the body of the do-while loop of Repetition.toReturnCode
\* and the test of its condition: the locals after it, exit being "none" when
\* the loop goes on
RepetitionIteration(g, func, delimiter, max, st) ==
  LET due == DelimiterDue(delimiter, st.values)
      del == IF due THEN FunctionFrom(g, delimiter, st.remainder)
             ELSE Failure(st.remainder, <<>>)
  IN  IF due /\ ~del.success
      THEN Break(st, st.remainder, del, st.failedExpectations, "delimiter")
      ELSE LET r == IF due THEN del.remainder ELSE st.remainder
               res == FunctionFrom(g, func, r)
               pushed == st.failedExpectations \o res.failedExpectations
           IN  IF ~res.success
               THEN Break(st, r, res, pushed, "element")
               ELSE LET next == Advance(st, r, res, pushed)
                    IN  IF Continue(max, next.values)
                        THEN [next EXCEPT !.exit = "none"]
                        ELSE next

\* the do-while loop of Repetition.toReturnCode; yields the locals at its exit
RepetitionLoop(g, func, delimiter, max, st) ==
  CHOOSE exit \in
    {IF next.exit = "none" THEN RepetitionLoop(g, func, delimiter, max, next)
     ELSE next :
     next \in {RepetitionIteration(g, func, delimiter, max, st)}} : TRUE

\* return statements that fail a repetition with exactly min values
RepetitionReturnAbove(min, st) ==
  IF min # 0 /\ Len(st.values) <= min /\ st.result.success = FALSE
  THEN Failure(st.result.remainder, st.failedExpectations)
  ELSE Success(ArrayValue(st.values), st.remainder, st.failedExpectations)

\* the return statements after the loop
RepetitionReturn(min, st) ==
  IF min # 0 /\ Len(st.values) < min /\ st.result.success = FALSE
  THEN Failure(st.result.remainder, st.failedExpectations)
  ELSE Success(ArrayValue(st.values), st.remainder, st.failedExpectations)

\* Repetition.toReturnCode
Repetition(g, func, text, min, max, delimiter) ==
  RepetitionReturn(min, RepetitionLoop(g, func, delimiter, max, RepetitionStart(text)))

\* an Optional whose fallback does not pass on the failed expectations
OptionalQuiet(g, func, text) ==
  LET a == FunctionFrom(g, func, text)
  IN  IF a.success
      THEN a
      ELSE Success(NullLiteral, text, <<>>)

\* Attempt with the fallback the Optional constructor gives it
Optional(g, func, text) ==
  LET a == FunctionFrom(g, func, text)
  IN  IF a.success
      THEN a
      ELSE Success(NullLiteral, text, a.failedExpectations)

\* an Invert whose failure carries what its expression left
InvertConsuming(g, func, text) ==
  LET res == FunctionFrom(g, func, text)
  IN  IF res.success
      THEN Failure(res.remainder, <<>>)
      ELSE Success(UndefinedLiteral, text, <<>>)

\* Invert.toCode, with the argument of SimpleNot as remainder
Invert(g, func, text) ==
  LET res == FunctionFrom(g, func, text)
  IN  IF res.success
      THEN Failure(text, <<>>)
      ELSE Success(UndefinedLiteral, text, <<>>)

\* a Named that adds its Expectation to those of its expression
NamedKeeping(g, origin, text) ==
  LET a == FunctionFrom(g, origin.expression, text)
  IN  IF a.success
      THEN a
      ELSE Failure(a.remainder,
             a.failedExpectations \o
             <<FailedExpectation(Expectation("other", origin.name), a.remainder)>>)

\* Attempt with the fallback the Named constructor gives it
Named(g, origin, text) ==
  LET a == FunctionFrom(g, origin.expression, text)
  IN  IF a.success
      THEN a
      ELSE Failure(a.remainder,
             <<FailedExpectation(Expectation("other", origin.name), a.remainder)>>)

\* Function.from dispatch by node type, invoked
FunctionFrom(g, origin, text) ==
  CASE origin.type = "rule" -> FunctionFrom(g, origin.expression, text)
    [] origin.type = "rule_ref" -> FunctionFrom(g, FindRule(g, origin.name), text)
    [] origin.type = "choice" -> First(g, origin.alternatives, text)
    [] origin.type = "sequence" -> Reduction(g, origin.elements, text, FALSE)
    [] origin.type = "literal" -> Literal(origin.value, text)
    [] origin.type = "optional" -> Optional(g, origin.expression, text)
    [] origin.type = "zero_or_more" ->
         Repetition(g, origin.expression, text, 0, NoMax, NoDelimiter)
    [] origin.type = "one_or_more" ->
         Repetition(g, origin.expression, text, 1, NoMax, NoDelimiter)
    [] origin.type = "repeated" ->
         Repetition(g, origin.expression, text, RepetitionMin(origin), origin.max,
                    origin.delimiter)
    [] origin.type = "simple_not" -> Invert(g, origin.expression, text)
    [] origin.type = "named" -> Named(g, origin, text)
    [] origin.type = "group" -> FunctionFrom(g, origin.expression, text)
    [] origin.type = "labeled" -> FunctionFrom(g, origin.expression, text)
    [] origin.type = "text" -> Text(g, origin, text)
    [] origin.type = "action" -> Action(g, origin, text)
    [] origin.type = "any" -> Any(text)
    [] origin.type = "class" -> Class(origin, text)

\* a root that records the end-of-input Expectation at the text it was given
ParserAtStart(g, text) ==
  LET a == FunctionFrom(g, g.rules[1], text)
  IN  IF a.success = TRUE
      THEN IF Len(a.remainder) = 0
           THEN a
           ELSE Failure(text,
                  <<FailedExpectation(Expectation("end", EndOfInput), text)>>)
      ELSE a

\* the body of the root procedure the Parser constructor emits
Parser(g, text) ==
  LET a == FunctionFrom(g, g.rules[1], text)
  IN  IF a.success = TRUE
      THEN IF Len(a.remainder) = 0
           THEN a
           ELSE Failure(a.remainder,
                  <<FailedExpectation(Expectation("end", EndOfInput), a.remainder)>>)
      ELSE a

(***************************************************************************)
(* Runtime: the syntax error.                                              *)
(***************************************************************************)
\* the < of two strings: by character code, a proper prefix first
RECURSIVE StringLess(_, _)
StringLess(a, b) ==
  IF b = <<>> THEN FALSE
  ELSE IF a = <<>> THEN TRUE
  ELSE IF Head(a) = Head(b) THEN StringLess(Tail(a), Tail(b))
  ELSE CharCode(Head(a)) < CharCode(Head(b))

\* one description put in its place in a sorted array
RECURSIVE Insert(_, _)
Insert(sorted, d) ==
  IF sorted = <<>> THEN <<d>>
  ELSE IF StringLess(d, Head(sorted)) THEN <<d>> \o sorted
  ELSE <<Head(sorted)>> \o Insert(Tail(sorted), d)

\* descriptions.sort()
RECURSIVE Sort(_)
Sort(descriptions) ==
  IF descriptions = <<>> THEN <<>>
  ELSE Insert(Sort(SubSeq(descriptions, 1, Len(descriptions) - 1)),
              descriptions[Len(descriptions)])

\* the for loop of describeExpected that drops adjacent repeats in place;
\* i and j are the 0-based indices of the source
RECURSIVE DedupLoop(_, _, _)
DedupLoop(descriptions, i, j) ==
  IF ~(i < Len(descriptions)) THEN SubSeq(descriptions, 1, j)
  ELSE IF descriptions[i] # descriptions[i + 1]
       THEN DedupLoop([descriptions EXCEPT ![j + 1] = descriptions[i + 1]], i + 1, j + 1)
       ELSE DedupLoop(descriptions, i + 1, j)

\* Array.prototype.join
RECURSIVE Join(_, _)
Join(strings, separator) ==
  IF strings = <<>> THEN <<>>
  ELSE IF Len(strings) = 1 THEN strings[1]
  ELSE strings[1] \o separator \o Join(Tail(strings), separator)

Undefined == <<"u", "n", "d", "e", "f", "i", "n", "e", "d">>

\* a describeExpected that puts no space after the last "or"
describeExpectedTight(expected) ==
  LET values == [i \in 1..Len(expected) |-> expected[i].value]
      sorted == Sort(values)
      descriptions == IF Len(sorted) > 0 THEN DedupLoop(sorted, 1, 1) ELSE sorted
      n == Len(descriptions)
  IN  CASE n = 1 -> descriptions[1]
        [] n = 2 -> descriptions[1] \o <<" ", "o", "r", " ">> \o descriptions[2]
        [] OTHER ->
             Join(SubSeq(descriptions, 1, n - 1), <<",", " ">>)
               \o <<",", " ", "o", "r">>
               \o (IF n = 0 THEN Undefined ELSE descriptions[n])

\* describeExpected of SyntaxError.formatMessage
describeExpected(expected) ==
  LET values == [i \in 1..Len(expected) |-> expected[i].value]
      sorted == Sort(values)
      descriptions == IF Len(sorted) > 0 THEN DedupLoop(sorted, 1, 1) ELSE sorted
      n == Len(descriptions)
  IN  CASE n = 1 -> descriptions[1]
        [] n = 2 -> descriptions[1] \o <<" ", "o", "r", " ">> \o descriptions[2]
        [] OTHER ->
             Join(SubSeq(descriptions, 1, n - 1), <<",", " ">>)
               \o <<",", " ", "o", "r", " ">>
               \o (IF n = 0 THEN Undefined ELSE descriptions[n])

\* runtime escape, on one character
escape(c) ==
  IF c \in {"\\", "\""} THEN <<"\\", c>>
  ELSE IF c = "\t" THEN <<"\\", "t">>
  ELSE IF c = "\n" THEN <<"\\", "n">>
  ELSE IF c = "\r" THEN <<"\\", "r">>
  ELSE <<c>>

\* describeFound of SyntaxError.formatMessage; found is at most one character
describeFound(found) ==
  IF found # <<>>
  THEN <<"\"">> \o escape(found[1]) \o <<"\"">>
  ELSE EndOfInput

\* SyntaxError.formatMessage
formatMessage(expected, found) ==
  <<"E", "x", "p", "e", "c", "t", "e", "d", " ">> \o describeExpected(expected)
    \o <<" ", "b", "u", "t", " ">> \o describeFound(found)
    \o <<" ", "f", "o", "u", "n", "d", ".">>

\* new SyntaxError(expected, found, location)
SyntaxError(expected, found, location) ==
  [name |-> "SyntaxError", message |-> formatMessage(expected, found),
   expected |-> expected, found |-> found, location |-> location]

(***************************************************************************)
(* The emitted entry point.                                                *)
(***************************************************************************)
\* a scan that moves to a shorter remainder without emptying what it kept
RECURSIVE ScanLoopKeeping(_, _, _)
ScanLoopKeeping(failedExpectations, remainder, kept) ==
  IF failedExpectations = <<>>
  THEN [remainder |-> remainder, failedExpectations |-> kept]
  ELSE LET e == Head(failedExpectations)
           shorter == Len(e.remainder) < Len(remainder)
           remainder1 == IF shorter THEN e.remainder ELSE remainder
           kept2 == IF Len(e.remainder) = Len(remainder1) THEN Append(kept, e) ELSE kept
       IN  ScanLoopKeeping(Tail(failedExpectations), remainder1, kept2)

\* the for loop of parse over result.failedExpectations
RECURSIVE ScanLoop(_, _, _)
ScanLoop(failedExpectations, remainder, kept) ==
  IF failedExpectations = <<>>
  THEN [remainder |-> remainder, failedExpectations |-> kept]
  ELSE LET e == Head(failedExpectations)
           shorter == Len(e.remainder) < Len(remainder)
           remainder1 == IF shorter THEN e.remainder ELSE remainder
           kept1 == IF shorter THEN <<>> ELSE kept
           kept2 == IF Len(e.remainder) = Len(remainder1) THEN Append(kept1, e) ELSE kept1
       IN  ScanLoop(Tail(failedExpectations), remainder1, kept2)

\* let remainder = input; let failedExpectations = []; for (...) {...}
Scan(text, failedExpectations) == ScanLoop(failedExpectations, text, <<>>)

\* a throw of a plain Error that lists the expectations
ThrowError(text, remainder, failedExpectations) ==
  [kind |-> "throw",
   error |-> [name |-> "Error",
              message |-> formatMessage(
                [i \in 1..Len(failedExpectations) |-> failedExpectations[i].expectation],
                SliceTo(remainder, 1)),
              expected |-> [i \in 1..Len(failedExpectations) |-> failedExpectations[i].expectation]]]

\* the throw statement of parse
Throw(text, remainder, failedExpectations) ==
  [kind |-> "throw",
   error |-> SyntaxError([i \in 1..Len(failedExpectations) |-> failedExpectations[i].expectation],
                         SliceTo(remainder, 1),
                         getLocation(NoSource, text, remainder, remainder))]

\* return result.value
Return(res) == [kind |-> "return", value |-> res.value]

(***************************************************************************)
(* Lowering: the types of the emitted procedures.  A type is a term.  The  *)
(* canonicalizing constructors return one object per structure, so equal   *)
(* terms are one object; "new NoType()" is a new object each time and the  *)
(* term carries the Reusable that made it.  A union holds its members as a *)
(* set: UnionType.from looks a union up by its members in any order.       *)
(***************************************************************************)
NoType(owner) == [none |-> owner]

SimpleType(value) == [simple |-> value]

LiteralType(value) == [literal |-> value]

FailureType == [failure |-> TRUE]

SuccessType(subtype) == [success |-> subtype]

ArrayType(type) == [array |-> type]

\* the type of a function whose returnType is not set yet
ReturnType(func) == [returns |-> func]

RawReturnType(type) == [raw |-> type]

\* an Interface is a Reusable: the type is the Interface of that name
InterfaceType(name) == [interface |-> name]

\* what unwrap gives where the code throws
CannotUnwrap == [thrown |-> "could not unwrap"]

\* UnionType.from: nested unions are flattened, the Success members are
\* merged into one Success of the union of their subtypes, and a single
\* remaining member is returned as it is
RECURSIVE UnionType(_)
UnionType(rawTypes) ==
  LET flat == UNION {IF "union" \in DOMAIN t THEN t.union ELSE {t} : t \in rawTypes}
      successes == {t \in flat : "success" \in DOMAIN t}
      merged == IF Cardinality(successes) > 1
                THEN {SuccessType(UnionType({t.success : t \in successes}))}
                ELSE successes
      types == merged \cup (flat \ successes)
  IN  IF Cardinality(types) = 1 THEN CHOOSE t \in types : TRUE
      ELSE [union |-> types]

\* the unwrap method of NoType, SuccessType, UnionType, ReturnType, FailureType
unwrap(type) ==
  CASE "none" \in DOMAIN type -> type
    [] "success" \in DOMAIN type -> type.success
    [] "union" \in DOMAIN type ->
         LET withoutFailure == type.union \ {FailureType}
         IN  IF /\ Cardinality(withoutFailure) = 1
                /\ \A t \in withoutFailure : "success" \in DOMAIN t
             THEN (CHOOSE t \in withoutFailure : TRUE).success
             ELSE CannotUnwrap
    [] "returns" \in DOMAIN type -> RawReturnType(type)
    [] OTHER -> CannotUnwrap

\* the Reusables a type refers to: getReferencedNodes of the type classes
RECURSIVE TypeNodes(_)
TypeNodes(type) ==
  CASE "interface" \in DOMAIN type -> {type.interface}
    [] "returns" \in DOMAIN type -> {type.returns}
    [] "raw" \in DOMAIN type -> TypeNodes(type.raw)
    [] "success" \in DOMAIN type -> TypeNodes(type.success)
    [] "array" \in DOMAIN type -> TypeNodes(type.array)
    [] "union" \in DOMAIN type -> UNION {TypeNodes(t) : t \in type.union}
    [] OTHER -> {}

(***************************************************************************)
(* Lowering: the directory of Reusables.  Reusable.#directory lists the    *)
(* procedures, expectations, interfaces and action codes of one            *)
(* toTypeScript call in the order of their construction; the n-th is named *)
(* item<n>, and a Reusable is referred to by that n.  The location object  *)
(* of a grammar node is the path to the node: the index of its rule, then  *)
(* the index of each child on the way down; that of the grammar is <<>>.   *)
(***************************************************************************)
NotFound == 0

\* Reusable.find: the first of the Reusables that meet the criteria
Find(found) ==
  IF found = {} THEN NotFound
  ELSE CHOOSE n \in found : \A m \in found : n <= m

\* r instanceof Function
IsFunction(r) == r.class \notin {"Expectation", "Interface", "Code"}

\* the index of the rule grammar.rules.find gives
RuleIndex(g, name) == CHOOSE i \in 1..Len(g.rules) : g.rules[i].name = name

\* toLabel: false, true for a pick, the label of a Label
Unlabeled == [labeled |-> FALSE]

Picked == [picked |-> TRUE]

Labeled(label) == [label |-> label]

\* Expectation.from: the Expectation of that type and value, made if there
\* is none
ExpectationFrom(directory, type, value) ==
  LET found == Find({n \in 1..Len(directory) :
                      /\ directory[n].class = "Expectation"
                      /\ directory[n].type = type
                      /\ directory[n].value = value})
  IN  IF found # NotFound
      THEN [directory |-> directory, name |-> found]
      ELSE [directory |-> Append(directory,
                                 [class |-> "Expectation", type |-> type,
                                  value |-> value]),
            name |-> Len(directory) + 1]

\* Interface.from: the Interface of these properties, made if there is none
InterfaceFrom(directory, properties) ==
  LET found == Find({n \in 1..Len(directory) :
                      /\ directory[n].class = "Interface"
                      /\ directory[n].properties = properties})
  IN  IF found # NotFound
      THEN [directory |-> directory, name |-> found]
      ELSE [directory |-> Append(directory,
                                 [class |-> "Interface",
                                  properties |-> properties]),
            name |-> Len(directory) + 1]

\* the return type the external type checker infers for an action's code
inferReturnType(code) ==
  IF code = "return { offset: offset(), range: range(), text: text(), location: location() }"
  THEN "{ offset: number; range: runtime.Range; text: string; location: runtime.LocationRange; }"
  ELSE "any"

\* Code.from: the Code of that action, made if there is none; its type is
\* the inferred one, and SimpleType.from("any") is a new NoType
CodeFrom(directory, origin, location) ==
  LET found == Find({n \in 1..Len(directory) :
                      /\ directory[n].class = "Code"
                      /\ directory[n].action = location})
      name == Len(directory) + 1
      inferred == inferReturnType(origin.code)
  IN  IF found # NotFound
      THEN [directory |-> directory, name |-> found]
      ELSE [directory |-> Append(directory,
                                 [class |-> "Code", action |-> location,
                                  code |-> origin.code,
                                  type |-> IF inferred = "any" THEN NoType(name)
                                           ELSE SimpleType(inferred)]),
            name |-> name]

\* the constructor of Function, with the initializers of its fields: the
\* Reusable is pushed, then the default body asks for the "any" Expectation
NewFunction(directory, constructor, source) ==
  LET name == Len(directory) + 1
      pushed == Append(directory,
                       [class |-> constructor, source |-> source,
                        returnType |-> NoType(name), expectations |-> <<>>,
                        allowsZeroLength |-> TRUE, label |-> Unlabeled,
                        sub |-> NotFound, calls |-> <<>>, nodes |-> {}])
  IN  ExpectationFrom(pushed, "any", AnyCharacter).directory

\* the assignments a constructor makes to the fields of the function it builds
Assigned(directory, name, fields) ==
  [directory EXCEPT
     ![name] = [k \in DOMAIN directory[name] |->
                  IF k \in DOMAIN fields THEN fields[k] ELSE directory[name][k]]]

\* ReturnType.from, and Invocation.toType
ReturnTypeFrom(directory, func) ==
  IF "none" \in DOMAIN directory[func].returnType THEN ReturnType(func)
  ELSE directory[func].returnType

\* the elements of a set of names in ascending order
RECURSIVE Ordered(_)
Ordered(names) ==
  IF names = {} THEN <<>>
  ELSE LET n == CHOOSE n \in names : \A m \in names : n <= m
       IN  <<n>> \o Ordered(names \ {n})

\* the names in a list
Range(names) == {names[i] : i \in 1..Len(names)}

\* a criterion that passes over the functions whose constructor has returned
FromSourceUnset(r, location) ==
  IsFunction(r) /\ r.source = location /\ "none" \in DOMAIN r.returnType

\* the criterion of the find of Function.from:
\* f instanceof Function && f.source === origin.location
FromSource(r, location) ==
  IsFunction(r) /\ r.source = location

RECURSIVE FunctionOf(_, _, _, _, _)
RECURSIVE FunctionsOf(_, _, _, _, _)
RECURSIVE NewRule(_, _, _, _)
RECURSIVE NewChoice(_, _, _, _)
RECURSIVE NewSequence(_, _, _, _, _)
RECURSIVE NewLabel(_, _, _, _)
RECURSIVE NewAction(_, _, _, _)
RECURSIVE NewOptional(_, _, _, _)
RECURSIVE NewSimpleNot(_, _, _, _)
RECURSIVE NewRepeated(_, _, _, _)
RECURSIVE NewText(_, _, _, _)
RECURSIVE NewNamed(_, _, _, _)

\* Function.from: the function whose source is the location of origin, or a
\* new one of the class of origin; its name and the directory after the call.
\* The directory is taken as it is at the call: "x \in {e}" names the value
\* of e.
FunctionOf(g, origin, location, insideAction, reusables) ==
  CHOOSE from \in
    {LET found == Find({n \in 1..Len(directory) :
                          FromSource(directory[n], location)})
     IN  IF found # NotFound THEN [directory |-> directory, name |-> found]
         ELSE CASE origin.type = "rule" -> NewRule(g, origin, location, directory)
                [] origin.type = "choice" ->
                     NewChoice(g, origin, location, directory)
                [] origin.type = "sequence" ->
                     NewSequence(g, origin, location, insideAction, directory)
                [] origin.type = "rule_ref" ->
                     FunctionOf(g, FindRule(g, origin.name),
                                <<RuleIndex(g, origin.name)>>, FALSE, directory)
                [] origin.type = "labeled" ->
                     NewLabel(g, origin, location, directory)
                [] origin.type = "action" ->
                     NewAction(g, origin, location, directory)
                [] origin.type = "optional" ->
                     NewOptional(g, origin, location, directory)
                [] origin.type = "simple_not" ->
                     NewSimpleNot(g, origin, location, directory)
                [] origin.type \in {"zero_or_more", "one_or_more", "repeated"} ->
                     NewRepeated(g, origin, location, directory)
                [] origin.type = "text" -> NewText(g, origin, location, directory)
                [] origin.type = "named" -> NewNamed(g, origin, location, directory)
                [] origin.type = "group" ->
                     FunctionOf(g, origin.expression, Append(location, 1), FALSE,
                                directory)
                [] origin.type = "literal" ->
                     LET name == Len(directory) + 1
                         made == ExpectationFrom(
                                   NewFunction(directory, "Literal", location),
                                   "literal", origin.value)
                     IN  [directory |->
                            Assigned(made.directory, name,
                                     [expectations |-> <<made.name>>,
                                      allowsZeroLength |-> FALSE,
                                      returnType |->
                                        UnionType({SuccessType(LiteralType(origin.value)),
                                                   FailureType}),
                                      nodes |-> {made.name}]),
                          name |-> name]
                [] origin.type \in {"any", "class"} ->
                     LET name == Len(directory) + 1
                         made == IF origin.type = "any"
                                 THEN ExpectationFrom(
                                        NewFunction(directory, "Any", location),
                                        "any", AnyCharacter)
                                 ELSE ExpectationFrom(
                                        NewFunction(directory, "Class", location),
                                        "class", RegExpLiteral(origin))
                     IN  [directory |->
                            Assigned(made.directory, name,
                                     [expectations |-> <<made.name>>,
                                      allowsZeroLength |-> FALSE,
                                      returnType |->
                                        UnionType({SuccessType(SimpleType("string")),
                                                   FailureType}),
                                      nodes |-> {made.name}]),
                          name |-> name] :
     directory \in {reusables}} : TRUE

\* origins.map((e) => Function.from(e)) for the children of the node at
\* location, from the i-th: lowered holds the names of those before it and
\* the directory after them
FunctionsOf(g, origins, location, i, lowered) ==
  IF i > Len(origins) THEN lowered
  ELSE CHOOSE mapped \in
         {FunctionsOf(g, origins, location, i + 1,
                      [directory |-> from.directory,
                       names |-> Append(lowered.names, from.name)]) :
          from \in {FunctionOf(g, origins[i], Append(location, i), FALSE,
                               lowered.directory)}} : TRUE

\* the constructor of Rule
NewRule(g, origin, location, directory) ==
  CHOOSE made \in
    {[directory |->
        Assigned(sub.directory, Len(directory) + 1,
                 [sub |-> sub.name,
                  expectations |-> sub.directory[sub.name].expectations,
                  allowsZeroLength |-> sub.directory[sub.name].allowsZeroLength,
                  returnType |-> ReturnTypeFrom(sub.directory, sub.name),
                  nodes |-> {sub.name}]),
      name |-> Len(directory) + 1] :
     sub \in {FunctionOf(g, origin.expression, Append(location, 1), FALSE,
                         NewFunction(directory, "Rule", location))}} : TRUE

\* the constructors of Pick and Label
NewLabel(g, origin, location, directory) ==
  CHOOSE made \in
    {[directory |->
        Assigned(sub.directory, Len(directory) + 1,
                 [sub |-> sub.name,
                  returnType |-> ReturnTypeFrom(sub.directory, sub.name),
                  expectations |-> sub.directory[sub.name].expectations,
                  allowsZeroLength |-> sub.directory[sub.name].allowsZeroLength,
                  label |-> IF origin.label = NoLabel THEN Picked
                            ELSE Labeled(origin.label),
                  nodes |-> {sub.name}]),
      name |-> Len(directory) + 1] :
     sub \in {FunctionOf(g, origin.expression, Append(location, 1), FALSE,
                         NewFunction(directory,
                                     IF origin.label = NoLabel THEN "Pick"
                                     ELSE "Label",
                                     location))}} : TRUE

\* the constructor of Choice; the body is a First
NewChoice(g, origin, location, directory) ==
  CHOOSE made \in
    {LET d == alternatives.directory
         funcs == alternatives.names
         expectations ==
           Unique(Flat([i \in 1..Len(funcs) |-> d[funcs[i]].expectations]))
     IN  [directory |->
            Assigned(d, Len(directory) + 1,
                     [expectations |-> expectations,
                      allowsZeroLength |->
                        \E i \in 1..Len(funcs) : d[funcs[i]].allowsZeroLength,
                      returnType |->
                        UnionType({ReturnTypeFrom(d, funcs[i]) : i \in 1..Len(funcs)}),
                      calls |-> funcs,
                      nodes |-> Range(funcs) \cup Range(expectations)]),
          name |-> Len(directory) + 1] :
     alternatives \in
       {FunctionsOf(g, origin.alternatives, location, 1,
                    [directory |-> NewFunction(directory, "Choice", location),
                     names |-> <<>>])}} : TRUE

\* the for loop of the Sequence constructor, from the i-th function
RECURSIVE SequenceLoop(_, _, _, _)
SequenceLoop(directory, funcs, i, expectations) ==
  IF i > Len(funcs)
  THEN [expectations |-> expectations, allowsZeroLength |-> TRUE]
  ELSE LET merged == Unique(expectations \o directory[funcs[i]].expectations)
       IN  IF ~directory[funcs[i]].allowsZeroLength
           THEN [expectations |-> merged, allowsZeroLength |-> FALSE]
           ELSE SequenceLoop(directory, funcs, i + 1, merged)

\* the constructor of Sequence and of the Reduction that is its body: every
\* element has a function, an element that is not one of this.functions is
\* a RegExpLiteral if it can be one, and the value is that of the pick or an
\* Interface of the values of this.functions
NewSequence(g, origin, location, insideAction, directory) ==
  CHOOSE made \in
    {LET elements == origin.elements
         d == lowered.directory
         funcs == lowered.names
         loop == SequenceLoop(d, funcs, 1, <<>>)
         pickIndex == PickIndex(elements)
         valued == Ordered({i \in 1..Len(elements) :
                              ~Unvalued(elements, i, insideAction)})
         called == {i \in 1..Len(elements) :
                      ~Replaced(g, elements, i, insideAction)}
         interface ==
           InterfaceFrom(d, [k \in 1..Len(valued) |->
                               [type |-> unwrap(d[funcs[valued[k]]].returnType),
                                label |-> d[funcs[valued[k]]].label]])
         valueType == IF pickIndex # 0
                      THEN unwrap(ReturnTypeFrom(d, funcs[pickIndex]))
                      ELSE InterfaceType(interface.name)
         matched == UNION {Range(d[funcs[i]].expectations) :
                             i \in (1..Len(elements)) \ called}
     IN  [directory |->
            Assigned(interface.directory, Len(directory) + 1,
                     [expectations |-> loop.expectations,
                      allowsZeroLength |-> loop.allowsZeroLength,
                      returnType |->
                        UnionType({SuccessType(valueType), FailureType}),
                      calls |-> [k \in 1..Cardinality(called) |->
                                   funcs[Ordered(called)[k]]],
                      nodes |-> {interface.name} \cup {funcs[i] : i \in called}
                                  \cup matched \cup TypeNodes(valueType)
                                  \cup Range(loop.expectations)]),
          name |-> Len(directory) + 1] :
     lowered \in
       {FunctionsOf(g, origin.elements, location, 1,
                    [directory |-> NewFunction(directory, "Sequence", location),
                     names |-> <<>>])}} : TRUE

\* the constructor of Optional; the body is an Attempt whose fallback is a
\* Success of null
NewOptional(g, origin, location, directory) ==
  CHOOSE made \in
    {[directory |->
        Assigned(func.directory, Len(directory) + 1,
                 [expectations |-> func.directory[func.name].expectations,
                  allowsZeroLength |-> TRUE,
                  returnType |->
                    UnionType({ReturnTypeFrom(func.directory, func.name),
                               SuccessType(SimpleType("null"))}),
                  calls |-> <<func.name>>,
                  nodes |-> {func.name}
                              \cup Range(func.directory[func.name].expectations)]),
      name |-> Len(directory) + 1] :
     func \in {FunctionOf(g, origin.expression, Append(location, 1), FALSE,
                          NewFunction(directory, "Optional", location))}} : TRUE

\* the constructor of SimpleNot; the body is an Invert
NewSimpleNot(g, origin, location, directory) ==
  CHOOSE made \in
    {[directory |->
        Assigned(func.directory, Len(directory) + 1,
                 [allowsZeroLength |-> TRUE,
                  returnType |->
                    UnionType({SuccessType(SimpleType("undefined")), FailureType}),
                  calls |-> <<func.name>>,
                  nodes |-> {func.name}]),
      name |-> Len(directory) + 1] :
     func \in {FunctionOf(g, origin.expression, Append(location, 1), FALSE,
                          NewFunction(directory, "SimpleNot", location))}} : TRUE

\* the constructors of ZeroOrMore, OneOrMore and Repeated; the body is a
\* Repetition of the function of the expression, and the function of the
\* delimiter is asked for after it
NewRepeated(g, origin, location, directory) ==
  CHOOSE made \in
    {LET d == funcs.directory
         func == funcs.names[1]
     IN  [directory |->
            Assigned(d, Len(directory) + 1,
                     [expectations |-> d[func].expectations,
                      allowsZeroLength |->
                        CASE origin.type = "zero_or_more" -> TRUE
                          [] origin.type = "one_or_more" -> d[func].allowsZeroLength
                          [] OTHER -> \/ RepetitionMin(origin) = 0
                                      \/ d[func].allowsZeroLength,
                      returnType |->
                        UnionType({SuccessType(
                                     ArrayType(unwrap(ReturnTypeFrom(d, func)))),
                                   FailureType}),
                      calls |-> funcs.names,
                      nodes |-> Range(funcs.names) \cup Range(d[func].expectations)]),
          name |-> Len(directory) + 1] :
     funcs \in
       {FunctionsOf(g,
                    IF RepetitionDelimiter(origin) = NoDelimiter
                    THEN <<origin.expression>>
                    ELSE <<origin.expression, origin.delimiter>>,
                    location, 1,
                    [directory |->
                       NewFunction(directory,
                                   CASE origin.type = "zero_or_more" -> "ZeroOrMore"
                                     [] origin.type = "one_or_more" -> "OneOrMore"
                                     [] OTHER -> "Repeated",
                                   location),
                     names |-> <<>>])}} : TRUE

\* the constructor of Text; the body is a Capture of the pattern of the
\* expression, or an Extract that calls its function when there is none
NewText(g, origin, location, directory) ==
  CHOOSE made \in
    {LET d == func.directory
         captured == CanRepresent(g, origin.expression, {})
     IN  [directory |->
            Assigned(d, Len(directory) + 1,
                     [expectations |-> d[func.name].expectations,
                      allowsZeroLength |-> d[func.name].allowsZeroLength,
                      returnType |->
                        UnionType({SuccessType(SimpleType("string")), FailureType}),
                      calls |-> IF captured THEN <<>> ELSE <<func.name>>,
                      nodes |-> (IF captured THEN {} ELSE {func.name})
                                  \cup Range(d[func.name].expectations)]),
          name |-> Len(directory) + 1] :
     func \in {FunctionOf(g, origin.expression, Append(location, 1), FALSE,
                          NewFunction(directory, "Text", location))}} : TRUE

\* the constructor of Named; the body is an Attempt whose fallback is a
\* Failure with the "other" Expectation of the name
NewNamed(g, origin, location, directory) ==
  CHOOSE made \in
    {LET other == ExpectationFrom(func.directory, "other", origin.name)
         d == other.directory
     IN  [directory |->
            Assigned(d, Len(directory) + 1,
                     [expectations |-> <<other.name>>,
                      allowsZeroLength |-> d[func.name].allowsZeroLength,
                      returnType |->
                        UnionType({ReturnTypeFrom(d, func.name), FailureType}),
                      calls |-> <<func.name>>,
                      nodes |-> {func.name, other.name}]),
          name |-> Len(directory) + 1] :
     func \in {FunctionOf(g, origin.expression, Append(location, 1), FALSE,
                          NewFunction(directory, "Named", location))}} : TRUE

\* the constructor of Action; the body is an Attempt whose then branch is a
\* Success of the Code of the action
NewAction(g, origin, location, directory) ==
  CHOOSE made \in
    {LET code == CodeFrom(func.directory, origin, location)
         d == code.directory
     IN  [directory |->
            Assigned(d, Len(directory) + 1,
                     [expectations |-> d[func.name].expectations,
                      allowsZeroLength |-> d[func.name].allowsZeroLength,
                      returnType |->
                        UnionType({SuccessType(d[code.name].type), FailureType}),
                      calls |-> <<func.name, code.name>>,
                      nodes |-> {func.name, code.name}
                                  \cup Range(d[func.name].expectations)]),
          name |-> Len(directory) + 1] :
     func \in {FunctionOf(g, origin.expression, Append(location, 1), TRUE,
                          NewFunction(directory, "Action", location))}} : TRUE

\* new Parser(grammar): the function of the first rule, then the "end"
\* Expectation of the Failure for input left over
NewParser(g, directory) ==
  CHOOSE made \in
    {LET end == ExpectationFrom(func.directory, "end", EndOfInput)
         d == end.directory
     IN  [directory |->
            Assigned(d, Len(directory) + 1,
                     [expectations |-> d[func.name].expectations,
                      allowsZeroLength |-> d[func.name].allowsZeroLength,
                      returnType |->
                        UnionType({ReturnTypeFrom(d, func.name), FailureType}),
                      calls |-> <<func.name>>,
                      nodes |-> {func.name, end.name}
                                  \cup Range(d[func.name].expectations)]),
          name |-> Len(directory) + 1] :
     func \in {FunctionOf(g, g.rules[1], <<1>>, FALSE,
                          NewFunction(directory, "Parser", <<>>))}} : TRUE

(***************************************************************************)
(* Emission: the definitions of the Reusables the parser refers to.        *)
(***************************************************************************)
\* getReferencedNodes of a Reusable
ReferencedNodes(directory, name) ==
  LET r == directory[name]
  IN  CASE r.class = "Expectation" -> {}
        [] r.class = "Code" -> {}
        [] r.class = "Interface" ->
             UNION {TypeNodes(r.properties[k].type) : k \in 1..Len(r.properties)}
        [] OTHER -> r.nodes

\* getAllReferencedNodes: the Reusables reached from those in names
RECURSIVE AllReferencedNodes(_, _)
AllReferencedNodes(directory, names) ==
  LET more == names \cup UNION {ReferencedNodes(directory, n) : n \in names}
  IN  IF more = names THEN names ELSE AllReferencedNodes(directory, more)

\* toCode of a function: its name, and for a Rule, a Label or a Pick the
\* name of the function it stands for
RECURSIVE toCode(_, _)
toCode(directory, name) ==
  IF IsFunction(directory[name]) /\ directory[name].sub # NotFound
  THEN toCode(directory, directory[name].sub)
  ELSE name

\* toDefinition: the name defined, what is defined and the names its text
\* mentions
toDefinition(directory, name) ==
  LET r == directory[name]
  IN  CASE r.class = "Expectation" ->
             [name |-> name, class |-> r.class, type |-> r.type, value |-> r.value]
        [] r.class = "Code" ->
             [name |-> name, class |-> r.class, code |-> r.code]
        [] OTHER ->
             [name |-> name, class |-> r.class,
              calls |-> [k \in 1..Len(r.calls) |-> toCode(directory, r.calls[k])],
              expectations |-> r.expectations]

\* whether toDefinition gives any text
Defined(r) == r.class \notin {"Interface", "Rule", "Label", "Pick"}

\* the definitions in the order of the emitted text: the expectations, then
\* inside parse the action codes and the functions
Definitions(directory, parser) ==
  LET referenced == AllReferencedNodes(directory, {parser})
      Emitted(classes) ==
        Ordered({n \in referenced : /\ Defined(directory[n])
                                    /\ (directory[n].class \in classes)})
      Others == {n \in referenced : /\ Defined(directory[n])
                                    /\ IsFunction(directory[n])}
      names == Emitted({"Expectation"}) \o Emitted({"Code"}) \o Ordered(Others)
  IN  [k \in 1..Len(names) |-> toDefinition(directory, names[k])]

\* static #directory: Reusable[] = [] of the class Reusable that a call of
\* toTypeScript declares: whatever an earlier call left is out of its reach
ReusableDirectoryShared(left) == left

ReusableDirectory(left) == <<>>

\* toTypeScript: the directory the call leaves and the code it emits, the
\* name of the parser that parse calls and the definitions
toTypeScript(g, left) ==
  CHOOSE run \in
    {[directory |-> parser.directory,
      code |-> [parser |-> toCode(parser.directory, parser.name),
                definitions |-> Definitions(parser.directory, parser.name)]] :
     parser \in {NewParser(g, ReusableDirectory(left))}} : TRUE

(***************************************************************************)
(* Grammars and inputs of the model.                                       *)
(***************************************************************************)
Grammar(rules) == [rules |-> rules]

Start(expression) == Grammar(<<rule("start", expression)>>)

\* start = "a"
GLiteral == Start(literal(<<"a">>))

\* start = "ab"
GLiteral2 == Start(literal(<<"a", "b">>))

\* start = "abc" / "ab"
GChoice == Start(choice(<<literal(<<"a", "b", "c">>), literal(<<"a", "b">>)>>))

\* start = "a" / "ab" / "b"
GOrder == Start(choice(<<literal(<<"a">>), literal(<<"a", "b">>), literal(<<"b">>)>>))

\* start = "a" "b" / "a" / "a"
GRepeat == Start(choice(<<sequence(<<literal(<<"a">>), literal(<<"b">>)>>),
                          literal(<<"a">>), literal(<<"a">>)>>))

\* start = "b." / "a." / "." / "ab." / "b."
GMany == Start(choice(<<literal(<<"b", ".">>), literal(<<"a", ".">>), literal(<<".">>),
                        literal(<<"a", "b", ".">>), literal(<<"b", ".">>)>>))

\* start = "a"|1..,"."|
GDelimited == Start(repeated(literal(<<"a">>), 1, NoMax, literal(<<".">>)))

\* start = "a"|2..3,"."|
GBounded == Start(repeated(literal(<<"a">>), 2, 3, literal(<<".">>)))

\* start = "ab"|0..,"a"|
GOverlap == Start(repeated(literal(<<"a", "b">>), 0, NoMax, literal(<<"a">>)))

\* start = "c" / "a" "b" / "a" "c" / "b"
GSequence == Start(choice(<<literal(<<"c">>),
                            sequence(<<literal(<<"a">>), literal(<<"b">>)>>),
                            sequence(<<literal(<<"a">>), literal(<<"c">>)>>),
                            literal(<<"b">>)>>))

\* start = [a-b]* "."
GStar == Start(sequence(<<zero_or_more(class(<<<<"a", "b">>>>, FALSE)),
                          literal(<<".">>)>>))

\* start = "a"? . "b"
GOptional == Start(sequence(<<optional(literal(<<"a">>)), any, literal(<<"b">>)>>))

Hello == <<"h", "e", "l", "l", "o">>

World == <<"w", "o", "r", "l", "d">>

\* start = a / b; a = [0-9]+; b = "hello" " " "world"
GError ==
  Grammar(<<rule("start", choice(<<rule_ref("a"), rule_ref("b")>>)),
            rule("a", one_or_more(class(<<<<"0", "9">>>>, FALSE))),
            rule("b", sequence(<<literal(Hello), literal(<<" ">>), literal(World)>>))>>)

Hellx == <<"h", "e", "l", "l", "x">>

\* start = (!"ab" .)* "ab"
GNot ==
  Start(sequence(<<zero_or_more(sequence(<<simple_not(literal(<<"a", "b">>)), any>>)),
                   literal(<<"a", "b">>)>>))

Greeting == <<"g", "r", "e", "e", "t", "i", "n", "g">>

\* start = c "."; c "greeting" = ("a" "b" / "b")
GNamed ==
  Grammar(<<rule("start", sequence(<<rule_ref("c"), literal(<<".">>)>>)),
            rule("c", named(Greeting,
                   group(choice(<<sequence(<<literal(<<"a">>), literal(<<"b">>)>>),
                                  literal(<<"b">>)>>))))>>)

\* start = "b"* @(a:"a"* { return { offset: offset(), ... } }) "b"?
GAction ==
  Start(sequence(<<zero_or_more(literal(<<"b">>)),
                   labeled(NoLabel,
                     action(labeled("a", zero_or_more(literal(<<"a">>))),
                            "return { offset: offset(), range: range(), text: text(), location: location() }")),
                   optional(literal(<<"b">>))>>))

\* start = t1 / t2 / t3 / t4 / t5 / t6 / t7
\* t1 = $(("a" / "ab") "a"); t2 = $("a"* "a"); t3 = $("a"|2|)
\* t4 = $("a"|2..3,"b"|); t5 = $(. "b"); t6 = $(!"b" [ab] "b")
\* t7 = "a"|2| @"b"
GText ==
  Grammar(<<rule("start", choice(<<rule_ref("t1"), rule_ref("t2"), rule_ref("t3"),
                                   rule_ref("t4"), rule_ref("t5"), rule_ref("t6"),
                                   rule_ref("t7")>>)),
            rule("t1", text_node(sequence(<<group(choice(<<literal(<<"a">>),
                                                           literal(<<"a", "b">>)>>)),
                                            literal(<<"a">>)>>))),
            rule("t2", text_node(sequence(<<zero_or_more(literal(<<"a">>)),
                                            literal(<<"a">>)>>))),
            rule("t3", text_node(repeated(literal(<<"a">>), NoMin, 2, NoDelimiter))),
            rule("t4", text_node(repeated(literal(<<"a">>), 2, 3, literal(<<"b">>)))),
            rule("t5", text_node(sequence(<<any, literal(<<"b">>)>>))),
            rule("t6", text_node(sequence(<<simple_not(literal(<<"b">>)),
                                            class(<<<<"a", "b">>>>, FALSE),
                                            literal(<<"b">>)>>))),
            rule("t7", sequence(<<repeated(literal(<<"a">>), NoMin, 2, NoDelimiter),
                                  labeled(NoLabel, literal(<<"b">>))>>))>>)

\* start = ("a" / "\n")* "\r" ("a" / "\r\n")* "."
GLines ==
  Start(sequence(<<zero_or_more(choice(<<literal(<<"a">>), literal(<<"\n">>)>>)),
                   literal(<<"\r">>),
                   zero_or_more(choice(<<literal(<<"a">>), literal(<<"\r", "\n">>)>>)),
                   literal(<<".">>)>>))

\* start = "a"|0..1| / "b"|0..0|
GLimits ==
  Start(choice(<<repeated(literal(<<"a">>), 0, 1, NoDelimiter),
                 repeated(literal(<<"b">>), 0, 0, NoDelimiter)>>))

\* start = "" "a"
GEmpty == Start(sequence(<<literal(<<>>), literal(<<"a">>)>>))

\* inputs written out for the grammars whose alphabet is too large to enumerate
ErrorInputs ==
  {<<>>, Hellx, Hello, Hello \o <<" ">>, Hello \o <<" ", "x">>,
   Hello \o <<" ">> \o World, Hello \o <<" ">> \o World \o <<"!">>,
   <<"1">>, <<"1", "2">>, <<"1", "x">>, <<"x">>,
   Hello \o <<"1">>, Hello \o <<" ", "w", "o", "r", "l", "x">>}

DelimitedInputs ==
  {<<"a", ".", "a", ".", "a", ".", "a", ".">>,
   <<".", "a", ".", "a", ".", "a", ".", "a">>,
   <<"a", ".", "a", ".", "a", ".", "a">>}

\* the grammars of the model
Grammars ==
  {GLiteral, GLiteral2, GChoice, GOrder, GRepeat, GMany, GDelimited, GBounded,
   GOverlap, GSequence, GStar, GOptional, GError, GLines,
   GNot, GNamed, GAction, GText, GLimits, GEmpty}

\* the inputs each grammar's parser is run on
Inputs(g) ==
  CASE g \in {GLiteral, GLiteral2, GOrder, GRepeat, GMany, GOptional, GOverlap, GNot,
              GAction, GLimits, GEmpty} ->
         Strings({"a", "b"}, MaxLen)
    [] g = GDelimited -> Strings({"a", "."}, MaxLen) \cup DelimitedInputs
    [] g = GBounded -> Strings({"a", "."}, MaxLen)
    [] g \in {GChoice, GSequence} -> Strings({"a", "b", "c"}, MaxWide)
    [] g = GStar -> Strings({"a", "c", "."}, MaxWide)
    [] g = GNamed -> Strings({"a", "b", "."}, MaxWide)
    [] g = GText -> Strings({"a", "b", "\n"}, MaxWide)
    [] g = GError -> ErrorInputs
    [] g = GLines -> Strings({"a", "\r", "\n", "."}, MaxWide)

\* a node and every node below it
RECURSIVE Nodes(_)
Nodes(origin) ==
  {origin} \cup
  CASE origin.type \in {"rule", "optional", "zero_or_more", "one_or_more",
                        "simple_not", "named", "group", "text", "labeled",
                        "action"} ->
         Nodes(origin.expression)
    [] origin.type = "repeated" ->
         Nodes(origin.expression) \cup
         (IF origin.delimiter = NoDelimiter THEN {} ELSE Nodes(origin.delimiter))
    [] origin.type = "choice" ->
         UNION {Nodes(origin.alternatives[i]) : i \in 1..Len(origin.alternatives)}
    [] origin.type = "sequence" ->
         UNION {Nodes(origin.elements[i]) : i \in 1..Len(origin.elements)}
    [] OTHER -> {}

\* every node of a grammar
GrammarNodes(g) == UNION {Nodes(g.rules[i]) : i \in 1..Len(g.rules)}

(***************************************************************************)
(* The state machine: one call of parse, or one invocation of the          *)
(* procedure of a node of the grammar on a suffix of the input.            *)
(***************************************************************************)
NoNode == [type |-> "none"]

NoResult == [success |-> FALSE, remainder |-> <<>>, failedExpectations |-> <<>>]

NoOutcome == [kind |-> "none"]

\* what the procedures emitted inside parse see: the rules they were lowered
\* from and the input parameter of parse
Closure(g, text) == [rules |-> g.rules, input |-> text]

Scope == Closure(grammar, input)

\* the locals of the loop of a repetition node at its exit
Locals(g, origin, text) ==
  IF IsRepetition(origin)
  THEN RepetitionLoop(g, origin.expression, RepetitionDelimiter(origin),
                      RepetitionMax(origin), RepetitionStart(text))
  ELSE RepetitionStart(text)

Init ==
  /\ grammar \in Grammars
  /\ input \in Inputs(grammar)
  /\ pc = "start"
  /\ call = [node |-> NoNode, text |-> <<>>, result |-> NoResult,
             locals |-> RepetitionStart(<<>>)]
  /\ result = NoResult
  /\ furthest = <<>>
  /\ retained = <<>>
  /\ outcome = NoOutcome
  /\ registry = <<>>
  /\ outputs = <<>>

\* the procedure of a node is invoked on a suffix of the input
Invoke ==
  /\ pc = "start"
  /\ \E node \in GrammarNodes(grammar), text \in Suffixes(input) :
       call' = [node |-> node, text |-> text,
                result |-> FunctionFrom(Scope, node, text),
                locals |-> Locals(Scope, node, text)]
  /\ pc' = "called"
  /\ UNCHANGED <<grammar, input, result, furthest, retained, outcome, registry, outputs>>

\* const result = parser(input)
Root ==
  /\ pc = "start"
  /\ result' = Parser(Scope, input)
  /\ pc' = "rooted"
  /\ UNCHANGED <<grammar, input, call, furthest, retained, outcome, registry, outputs>>

\* if (result.success === true) return result.value
ParseReturn ==
  /\ pc = "rooted"
  /\ result.success = TRUE
  /\ outcome' = Return(result)
  /\ pc' = "done"
  /\ UNCHANGED <<grammar, input, call, result, furthest, retained, registry, outputs>>

\* else: the scan of result.failedExpectations
ParseScan ==
  /\ pc = "rooted"
  /\ result.success # TRUE
  /\ LET scanned == Scan(input, result.failedExpectations)
     IN  /\ furthest' = scanned.remainder
         /\ retained' = scanned.failedExpectations
  /\ pc' = "scanned"
  /\ UNCHANGED <<grammar, input, call, result, outcome, registry, outputs>>

\* throw new SyntaxError(...)
ParseThrow ==
  /\ pc = "scanned"
  /\ outcome' = Throw(input, furthest, retained)
  /\ pc' = "done"
  /\ UNCHANGED <<grammar, input, call, result, furthest, retained, registry, outputs>>

Next == Invoke \/ Root \/ ParseReturn \/ ParseScan \/ ParseThrow

Spec == Init /\ [][Next]_vars

(***************************************************************************)
(* The state machine of the generate pass: toTypeScript is called on a     *)
(* grammar, and called again on the same grammar.                          *)
(***************************************************************************)
Atoms == {literal(<<"a">>), literal(<<"b">>), any}

\* start = "a" start / "b"
GRecursive ==
  Start(choice(<<sequence(<<literal(<<"a">>), rule_ref("start")>>),
                 literal(<<"b">>)>>))

\* start = "a" b / "c" b; b = "b" start / "d"
GMutual ==
  Grammar(<<rule("start", choice(<<sequence(<<literal(<<"a">>), rule_ref("b")>>),
                                   sequence(<<literal(<<"c">>), rule_ref("b")>>)>>)),
            rule("b", choice(<<sequence(<<literal(<<"b">>), rule_ref("start")>>),
                               literal(<<"d">>)>>))>>)

\* start = x1 / x2 / x3 / x4 / x5 / x6
\* x1 = $("a" ("b" { return 1 })); x2 = $("a" x2 / "b"); x3 = $("a" [b]i)
\* x4 = ("b" { return 1 }) @"a"; x5 = $("a" "b"); x6 = $[a]i
GCapture ==
  Grammar(<<rule("start", choice(<<rule_ref("x1"), rule_ref("x2"), rule_ref("x3"),
                                   rule_ref("x4"), rule_ref("x5"), rule_ref("x6")>>)),
            rule("x1", text_node(sequence(<<literal(<<"a">>),
                                            group(action(literal(<<"b">>),
                                                         "return 1"))>>))),
            rule("x2", text_node(choice(<<sequence(<<literal(<<"a">>), rule_ref("x2")>>),
                                          literal(<<"b">>)>>))),
            rule("x3", text_node(sequence(<<literal(<<"a">>),
                                            classIgnoreCase(<<<<"b", "b">>>>, FALSE)>>))),
            rule("x4", sequence(<<group(action(literal(<<"b">>), "return 1")),
                                  labeled(NoLabel, literal(<<"a">>))>>)),
            rule("x5", text_node(sequence(<<literal(<<"a">>), literal(<<"b">>)>>))),
            rule("x6", text_node(classIgnoreCase(<<<<"a", "a">>>>, FALSE)))>>)

\* the lists of two to n atoms
RECURSIVE Lists(_)
Lists(n) ==
  IF n < 2 THEN {}
  ELSE Lists(n - 1) \cup [1..n -> Atoms]

\* the grammars the pass is run on: those of the model, and every sequence
\* and every choice of atoms
LoweringGrammars ==
  Grammars \cup {GRecursive, GMutual, GCapture}
           \cup {Start(sequence(elements)) : elements \in Lists(MaxElements)}
           \cup {Start(choice(alternatives)) : alternatives \in Lists(MaxElements)}

LoweringInit ==
  /\ grammar \in LoweringGrammars
  /\ input = <<>>
  /\ pc = "start"
  /\ call = [node |-> NoNode, text |-> <<>>, result |-> NoResult,
             locals |-> RepetitionStart(<<>>)]
  /\ result = NoResult
  /\ furthest = <<>>
  /\ retained = <<>>
  /\ outcome = NoOutcome
  /\ registry = <<>>
  /\ outputs = <<>>

\* config.passes.generate: toTypeScript(grammar, options, session)
Generate ==
  /\ Len(outputs) < MaxRuns
  /\ \E run \in {toTypeScript(grammar, registry)} :
       /\ registry' = run.directory
       /\ outputs' = Append(outputs, run.code)
  /\ UNCHANGED <<grammar, input, pc, call, result, furthest, retained, outcome>>

LoweringNext == Generate

SpecLowering == LoweringInit /\ [][LoweringNext]_vars

(***************************************************************************)
(* The state machine of one invocation of the procedure of a repetition,   *)
(* one iteration of its loop at a time.                                    *)
(***************************************************************************)
\* start = ("a"?)*
GRunaway == Start(zero_or_more(optional(literal(<<"a">>))))

\* start = "a"?|1.., "b"?|
GRunawayDelimited ==
  Start(repeated(optional(literal(<<"a">>)), 1, NoMax, optional(literal(<<"b">>))))

RepetitionGrammars ==
  {GDelimited, GBounded, GOverlap, GStar, GNot, GLimits, GRunaway, GRunawayDelimited}

RepetitionInputs(g) ==
  IF g \in {GRunaway, GRunawayDelimited} THEN Strings({"a", "b"}, MaxLen)
  ELSE Inputs(g)

\* more values than a loop that consumes a character in every iteration can
\* collect on an input of the model
MaxValues == MaxLen + 2

RepetitionInit ==
  /\ grammar \in RepetitionGrammars
  /\ input \in RepetitionInputs(grammar)
  /\ pc = "start"
  /\ call = [node |-> NoNode, text |-> <<>>, result |-> NoResult,
             locals |-> RepetitionStart(<<>>)]
  /\ result = NoResult
  /\ furthest = <<>>
  /\ retained = <<>>
  /\ outcome = NoOutcome
  /\ registry = <<>>
  /\ outputs = <<>>

\* the procedure of a repetition is invoked on a suffix of the input: the
\* declarations before the loop
Enter ==
  /\ pc = "start"
  /\ \E node \in {n \in GrammarNodes(grammar) : IsRepetition(n)},
        text \in Suffixes(input) :
       call' = [node |-> node, text |-> text, result |-> NoResult,
                locals |-> RepetitionStart(text)]
  /\ pc' = "looping"
  /\ UNCHANGED <<grammar, input, result, furthest, retained, outcome, registry, outputs>>

\* do { ... } while (...): one iteration
Iterate ==
  /\ pc = "looping"
  /\ Len(call.locals.values) < MaxValues
  /\ \E next \in {RepetitionIteration(Scope, call.node.expression,
                                       RepetitionDelimiter(call.node),
                                       RepetitionMax(call.node), call.locals)} :
       /\ call' = [call EXCEPT !.locals = next]
       /\ pc' = IF next.exit = "none" THEN "looping" ELSE "returning"
  /\ UNCHANGED <<grammar, input, result, furthest, retained, outcome, registry, outputs>>

\* the return statements after the loop
Leave ==
  /\ pc = "returning"
  /\ call' = [call EXCEPT
               !.result = RepetitionReturn(RepetitionMin(call.node), call.locals)]
  /\ pc' = "called"
  /\ UNCHANGED <<grammar, input, result, furthest, retained, outcome, registry, outputs>>

RepetitionNext == Enter \/ Iterate \/ Leave

\* the generated code runs on: a step that can be taken is taken
SpecRepetition ==
  RepetitionInit /\ [][RepetitionNext]_vars /\ WF_vars(RepetitionNext)

\* the loop is followed up to MaxValues values: where it is followed no
\* further the iteration that is due goes on from the remainder it started
\* with, as the one before it did, and there are more values than an
\* invocation whose iterations consume can collect
FollowedToRunaway ==
  (pc = "looping" /\ Len(call.locals.values) >= MaxValues) =>
    \E next \in {RepetitionIteration(Scope, call.node.expression,
                                     RepetitionDelimiter(call.node),
                                     RepetitionMax(call.node), call.locals)} :
      /\ next.exit = "none"
      /\ next.remainder = call.locals.remainder
      /\ Len(call.locals.values) > Len(call.text) + 1

(***************************************************************************)
(* The type objects and their directories.  A type is an object: registry  *)
(* holds the objects in the order of their construction and an object is   *)
(* the index it has there, so two objects of one structure are two         *)
(* indices.  Every static from searches the directory of its class, the    *)
(* objects of that class, and constructs where it finds nothing.           *)
(***************************************************************************)

\* the types a request may add before the requests stop
MaxTypes == 3

\* the longest argument list of a request for a union
MaxMembers == 2

\* UnionType.from has thrown "cannot create union of zero types"
Thrown == -1

\* the values of the SimpleTypes asked for: a primitive, and any
SimpleValues == {"string", "any"}

\* the literals whose LiteralType is asked for
LiteralValues == {<<"a">>}

\* new C(...): the object is pushed and is the last of the objects
New(types, object) ==
  [types |-> Append(types, object), object |-> Len(types) + 1]

\* the objects at class definition: FailureType.singleton, its field type,
\* and the static type of SuccessType
StaticTypes ==
  <<[class |-> "SimpleType", value |-> "runtime.Failure"],
    [class |-> "FailureType", type |-> 1],
    [class |-> "SimpleType", value |-> "runtime.Success"]>>

\* FailureType.singleton
FailureSingleton == 2

SimpleTypeFrom(types, value) ==
  IF value = "any" THEN New(types, [class |-> "NoType"])
  ELSE LET found == Find({n \in 1..Len(types) :
                            /\ types[n].class = "SimpleType"
                            /\ types[n].value = value})
       IN  IF found # NotFound THEN [types |-> types, object |-> found]
           ELSE New(types, [class |-> "SimpleType", value |-> value])

LiteralTypeFrom(types, value) ==
  LET found == Find({n \in 1..Len(types) :
                       /\ types[n].class = "LiteralType"
                       /\ types[n].literal = value})
  IN  IF found # NotFound THEN [types |-> types, object |-> found]
      ELSE New(types, [class |-> "LiteralType", literal |-> value])

SuccessTypeFrom(types, subtype) ==
  LET found == Find({n \in 1..Len(types) :
                       /\ types[n].class = "SuccessType"
                       /\ types[n].subtype = subtype})
  IN  IF found # NotFound THEN [types |-> types, object |-> found]
      ELSE New(types, [class |-> "SuccessType", subtype |-> subtype])

ArrayTypeFrom(types, type) ==
  LET found == Find({n \in 1..Len(types) :
                       /\ types[n].class = "ArrayType"
                       /\ types[n].type = type})
  IN  IF found # NotFound THEN [types |-> types, object |-> found]
      ELSE New(types, [class |-> "ArrayType", type |-> type])

\* the first reduce keeps every argument as it is
MembersNested(types, type) == <<type>>
\* the first reduce: a union among the arguments stands for its members
Members(types, type) ==
  IF types[type].class = "UnionType" THEN types[type].types ELSE <<type>>

\* the first reduce of UnionType.from
RECURSIVE Flattened(_, _)
Flattened(types, rawTypes) ==
  IF rawTypes = <<>> THEN <<>>
  ELSE CHOOSE flat \in
         {Unique(accumulated \o Members(types, rawTypes[Len(rawTypes)])) :
          accumulated \in
            {Flattened(types, SubSeq(rawTypes, 1, Len(rawTypes) - 1))}} : TRUE

\* UnionType.from, and its second reduce from the i-th type on: a Success
\* goes to the front, and merges with the Success that is there
RECURSIVE UnionTypeFrom(_, _)
RECURSIVE Merged(_, _, _, _)
Merged(types, flat, i, accumulated) ==
  IF i > Len(flat) THEN [types |-> types, members |-> accumulated]
  ELSE IF types[flat[i]].class = "SuccessType"
  THEN IF accumulated # <<>> /\ types[accumulated[1]].class = "SuccessType"
       THEN CHOOSE rest \in
              {Merged(success.types, flat, i + 1,
                      <<success.object>> \o Tail(accumulated)) :
               success \in
                 {SuccessTypeFrom(payload.types, payload.object) :
                  payload \in
                    {UnionTypeFrom(types, <<types[accumulated[1]].subtype,
                                            types[flat[i]].subtype>>)}}} : TRUE
       ELSE Merged(types, flat, i + 1, <<flat[i]>> \o accumulated)
  ELSE Merged(types, flat, i + 1, Append(accumulated, flat[i]))

UnionTypeFrom(types, rawTypes) ==
  CHOOSE made \in
    {IF Len(merged.members) = 0
     THEN [types |-> merged.types, object |-> Thrown]
     ELSE IF Len(merged.members) = 1
     THEN [types |-> merged.types, object |-> merged.members[1]]
     ELSE LET found == Find({n \in 1..Len(merged.types) :
                               /\ merged.types[n].class = "UnionType"
                               /\ Len(merged.members) = Len(merged.types[n].types)
                               /\ \A k \in 1..Len(merged.members) :
                                    merged.members[k] \in Range(merged.types[n].types)})
          IN  IF found # NotFound
              THEN [types |-> merged.types, object |-> found]
              ELSE New(merged.types,
                       [class |-> "UnionType", types |-> merged.members]) :
     merged \in {Merged(types, Flattened(types, rawTypes), 1, <<>>)}} : TRUE

\* the argument lists of a request for a union of the objects there are
Arguments(types) ==
  UNION {[1..n -> 1..Len(types)] : n \in 0..MaxMembers}

TypesInit ==
  /\ grammar = GLiteral
  /\ input = <<>>
  /\ pc = "start"
  /\ call = [node |-> NoNode, text |-> <<>>, result |-> NoResult,
             locals |-> RepetitionStart(<<>>)]
  /\ result = NoResult
  /\ furthest = <<>>
  /\ retained = <<>>
  /\ outcome = NoOutcome
  /\ registry = StaticTypes
  /\ outputs = <<>>

\* a request is answered: the objects there are now, and the object returned
Answer(made) ==
  /\ registry' = made.types
  /\ outputs' = <<made.object>>
  /\ UNCHANGED <<grammar, input, pc, call, result, furthest, retained, outcome>>

\* the requests stop when MaxTypes types were added
Requesting == Len(registry) < Len(StaticTypes) + MaxTypes

RequestSimple ==
  /\ Requesting
  /\ \E value \in SimpleValues : Answer(SimpleTypeFrom(registry, value))

RequestLiteral ==
  /\ Requesting
  /\ \E value \in LiteralValues : Answer(LiteralTypeFrom(registry, value))

RequestFailure ==
  /\ Requesting
  /\ Answer([types |-> registry, object |-> FailureSingleton])

RequestSuccess ==
  /\ Requesting
  /\ \E subtype \in 1..Len(registry) : Answer(SuccessTypeFrom(registry, subtype))

RequestArray ==
  /\ Requesting
  /\ \E type \in 1..Len(registry) : Answer(ArrayTypeFrom(registry, type))

RequestUnion ==
  /\ Requesting
  /\ \E rawTypes \in Arguments(registry) :
       \E made \in {UnionTypeFrom(registry, rawTypes)} : Answer(made)

TypesNext ==
  \/ RequestSimple
  \/ RequestLiteral
  \/ RequestFailure
  \/ RequestSuccess
  \/ RequestArray
  \/ RequestUnion

SpecTypes == TypesInit /\ [][TypesNext]_vars

TypeOK ==
  /\ pc \in {"start", "called", "rooted", "scanned", "done"}
  /\ result.success \in BOOLEAN
  /\ outcome.kind \in {"none", "return", "throw"}

(***************************************************************************)
(* Properties.                                                             *)
(***************************************************************************)
\* C1: the procedure lowered from a literal L succeeds on every text that is
\* L followed by some rest, with value L and that rest as remainder, and on
\* every other text fails with the single literal Expectation for L recorded
\* at the unchanged text.
LiteralContract ==
  (pc = "called" /\ call.node.type = "literal") =>
    LET L == call.node.value
        rests == {rest \in Suffixes(call.text) : call.text = L \o rest}
    IN  IF rests # {}
        THEN /\ call.result.success
             /\ call.result.value = StringValue(L)
             /\ call.result.remainder \in rests
             /\ (call.text = L => call.result.remainder = <<>>)
        ELSE /\ ~call.result.success
             /\ call.result.remainder = call.text
             /\ call.result.failedExpectations =
                  <<[expectation |-> [type |-> "literal", value |-> L],
                     remainder |-> call.text]>>

\* a two-character literal matched at the head of a longer text
LiteralMatched ==
  /\ pc = "called"
  /\ call.node = literal(<<"a", "b">>)
  /\ call.text = <<"a", "b", "a">>
  /\ call.result.success
  /\ call.result.remainder = <<"a">>

\* C2: a choice returns the value and remainder of the first alternative, in
\* declared order, that succeeds on the text it was given, and fails only when
\* every alternative fails there; "abc" / "ab" on "ab" yields "ab".
ChoiceFirst ==
  (pc = "called" /\ call.node.type = "choice") =>
    LET alternatives == call.node.alternatives
        tried == [i \in 1..Len(alternatives) |->
                    FunctionFrom(Scope, alternatives[i], call.text)]
        matching == {i \in 1..Len(alternatives) : tried[i].success}
    IN  /\ IF matching = {}
           THEN ~call.result.success
           ELSE LET first == CHOOSE i \in matching : \A j \in matching : i <= j
                IN  /\ call.result.success
                    /\ call.result.value = tried[first].value
                    /\ call.result.remainder = tried[first].remainder
        /\ (grammar = GChoice /\ call.text = <<"a", "b">>) =>
             /\ call.result.success
             /\ call.result.value = StringValue(<<"a", "b">>)

\* "abc" / "ab" on "ab": the first alternative fails, the second gives "ab"
ChoiceSecondWins ==
  /\ pc = "called"
  /\ grammar = GChoice
  /\ call.node.type = "choice"
  /\ call.text = <<"a", "b">>
  /\ ~FunctionFrom(Scope, call.node.alternatives[1], call.text).success
  /\ call.result.success
  /\ call.result.value = StringValue(<<"a", "b">>)

\* the loop of a delimited repetition left because the delimiter matched and
\* the element after it did not
TrailingDelimiter ==
  /\ pc = "called"
  /\ IsRepetition(call.node)
  /\ RepetitionDelimiter(call.node) # NoDelimiter
  /\ Len(call.locals.values) > 0
  /\ call.locals.exit = "element"

\* the text begins at a match of the node's delimiter that ends where the
\* failing element was tried
AtDelimiter(text) ==
  LET del == FunctionFrom(Scope, RepetitionDelimiter(call.node), text)
  IN  del.success /\ del.remainder = call.locals.r

\* C3 as stated: whenever a delimiter matches but the element after it does
\* not, the remainder returned by the repetition begins at that delimiter.
TrailingDelimiterNeverPassed ==
  TrailingDelimiter => AtDelimiter(call.result.remainder)

\* C3 amended: whenever a delimiter matches but the element after it does not
\* and the repetition succeeds, the remainder it returns begins at that
\* delimiter; and the parser of start = "a"|1..,"."| throws on every input that
\* ends with the delimiter.
TrailingDelimiterNotCommitted ==
  /\ (TrailingDelimiter /\ call.result.success) =>
       /\ AtDelimiter(call.result.remainder)
       /\ call.result.remainder = call.locals.remainder
       /\ Len(call.result.value.array) = Len(call.locals.values)
  /\ (pc = "done" /\ grammar = GDelimited /\ input # <<>> /\ input[Len(input)] = ".") =>
       outcome.kind = "throw"

\* "a"|1..,"."| on "a.a.": two elements, and the remainder is the last "."
TrailingDelimiterLeft ==
  /\ TrailingDelimiter
  /\ grammar = GDelimited
  /\ call.text = <<"a", ".", "a", ".">>
  /\ call.result.success
  /\ call.result.remainder = <<".">>

\* C4: a delimited repetition tries its delimiter only after an element has
\* matched: when the element fails on the text the repetition was given, no
\* value is collected and nothing is consumed, the repetition failing if its
\* minimum is positive; and the parser of start = "a"|1..,"."| throws on every
\* input that begins with the delimiter.
LeadingDelimiterNotConsumed ==
  /\ (pc = "called" /\ IsRepetition(call.node)
        /\ RepetitionDelimiter(call.node) # NoDelimiter) =>
       /\ call.locals.exit = "delimiter" => Len(call.locals.values) > 0
       /\ ~FunctionFrom(Scope, call.node.expression, call.text).success =>
            /\ call.locals.values = <<>>
            /\ call.locals.exit = "element"
            /\ call.locals.r = call.text
            /\ call.result.success =>
                 /\ call.result.remainder = call.text
                 /\ call.result.value = ArrayValue(<<>>)
            /\ RepetitionMin(call.node) > 0 => ~call.result.success
  /\ (pc = "done" /\ grammar = GDelimited /\ input # <<>> /\ input[1] = ".") =>
       outcome.kind = "throw"

\* parse(".a.a.a.a") of start = "a"|1..,"."| has thrown
LeadingDelimiterRejected ==
  /\ pc = "done"
  /\ grammar = GDelimited
  /\ input = <<".", "a", ".", "a", ".", "a", ".", "a">>
  /\ outcome.kind = "throw"

\* what the procedure of the first rule returns on the whole input
FirstRule == FunctionFrom(Scope, grammar.rules[1], input)

EndExpectation == [type |-> "end", value |-> EndOfInput]

\* C5: if the first rule succeeds leaving a non-empty remainder, the root
\* procedure fails and its failure carries an end-of-input Expectation recorded
\* at exactly that remainder, which is where the raised error is located; if the
\* first rule succeeds with an empty remainder the root returns that success
\* unchanged.
RootCompletion ==
  (pc \in {"rooted", "scanned", "done"} /\ FirstRule.success) =>
    IF FirstRule.remainder = <<>>
    THEN result = FirstRule
    ELSE /\ ~result.success
         /\ result.remainder = FirstRule.remainder
         /\ \E i \in 1..Len(result.failedExpectations) :
              result.failedExpectations[i] =
                [expectation |-> EndExpectation, remainder |-> FirstRule.remainder]
         /\ pc = "done" =>
              /\ outcome.kind = "throw"
              /\ outcome.error.location.start.offset =
                   Len(input) - Len(FirstRule.remainder)

\* the first rule matched a proper prefix of the input and the root has run
RootLeftInput ==
  /\ pc = "rooted"
  /\ FirstRule.success
  /\ FirstRule.remainder # <<>>
  /\ FirstRule.remainder # input
  /\ ~result.success

\* the length of the shortest remainder among the accumulated FailedExpectations
ShortestRemainder(failedExpectations) ==
  CHOOSE n \in {Len(failedExpectations[i].remainder) : i \in 1..Len(failedExpectations)} :
    \A i \in 1..Len(failedExpectations) : n <= Len(failedExpectations[i].remainder)

\* the indices, in order, of the accumulated FailedExpectations at that length
RECURSIVE AtShortest(_, _, _)
AtShortest(failedExpectations, n, i) ==
  IF i > Len(failedExpectations) THEN <<>>
  ELSE (IF Len(failedExpectations[i].remainder) = n THEN <<failedExpectations[i]>> ELSE <<>>)
       \o AtShortest(failedExpectations, n, i + 1)

\* C6: on a failed parse the FailedExpectations the entry point keeps are
\* exactly those of the root result whose remainder has the least length of
\* all of them: each kept one is tied to that remainder, none at that
\* remainder is left out, and the error lists their Expectations.
FurthestRetained ==
  (pc \in {"scanned", "done"} /\ outcome.kind # "return") =>
    /\ IF result.failedExpectations = <<>>
       THEN retained = <<>>
       ELSE LET n == ShortestRemainder(result.failedExpectations)
            IN  /\ retained = AtShortest(result.failedExpectations, n, 1)
                /\ Len(furthest) = n
    /\ \A i \in 1..Len(retained) : retained[i].remainder = furthest
    /\ pc = "done" =>
         outcome.error.expected =
           [i \in 1..Len(retained) |-> retained[i].expectation]

\* a scan that dropped FailedExpectations both before and after the kept ones
FurthestAmongSeveral ==
  /\ pc = "scanned"
  /\ retained # <<>>
  /\ \E i, j, k \in 1..Len(result.failedExpectations) :
       /\ i < j /\ j < k
       /\ Len(result.failedExpectations[i].remainder) > Len(furthest)
       /\ result.failedExpectations[j].remainder = furthest
       /\ Len(result.failedExpectations[k].remainder) > Len(furthest)

DigitClass == [type |-> "class", value |-> <<"/", "^", "[", "0", "-", "9", "]", "/", "g">>]

\* the Expectations of the raised error
Expected == outcome.error.expected

ExpectedDeduplicated ==
  (pc = "done" /\ outcome.kind = "throw") =>
    \A i, j \in 1..Len(Expected) : Expected[i] = Expected[j] => i = j

\* the descriptions of a set, least first
RECURSIVE Ascending(_)
Ascending(descriptions) ==
  IF descriptions = {} THEN <<>>
  ELSE LET least == CHOOSE d \in descriptions :
                      \A e \in descriptions \ {d} : StringLess(d, e)
       IN  <<least>> \o Ascending(descriptions \ {least})

\* every description followed by a comma and a space
RECURSIVE Commas(_)
Commas(descriptions) ==
  IF descriptions = <<>> THEN <<>>
  ELSE Head(descriptions) \o <<",", " ">> \o Commas(Tail(descriptions))

\* one description as itself, two as A or B, more as A, B, or C
Listing(descriptions) ==
  LET n == Len(descriptions)
  IN  IF n = 1 THEN descriptions[1]
      ELSE IF n = 2 THEN descriptions[1] \o <<" ", "o", "r", " ">> \o descriptions[2]
      ELSE Commas(SubSeq(descriptions, 1, n - 1)) \o <<"o", "r", " ">> \o descriptions[n]

\* C10: the message of the raised error is "Expected ", the listing of the
\* distinct descriptions of its expectations in ascending order, " but ", what
\* was found, and " found.", whenever the error has an expectation.
MessageListing ==
  (pc = "done" /\ outcome.kind = "throw" /\ Len(Expected) > 0) =>
    LET descriptions == Ascending({Expected[i].value : i \in 1..Len(Expected)})
    IN  outcome.error.message =
          <<"E", "x", "p", "e", "c", "t", "e", "d", " ">> \o Listing(descriptions)
            \o <<" ", "b", "u", "t", " ">> \o describeFound(outcome.error.found)
            \o <<" ", "f", "o", "u", "n", "d", ".">>

\* an error with a repeated expectation and three distinct descriptions
MessageOfThree ==
  /\ pc = "done"
  /\ outcome.kind = "throw"
  /\ Len(Expected) = 4
  /\ Cardinality({Expected[i].value : i \in 1..Len(Expected)}) = 3

\* a line terminator begins at the i-th character of the text: a carriage
\* return, or a line feed that does not follow a carriage return
TerminatorAt(text, i) ==
  \/ text[i] = "\r"
  \/ text[i] = "\n" /\ (i = 1 \/ text[i - 1] # "\r")

\* the number of characters before the offset up to and including the last
\* character of a line terminator
LineStart(text, offset) ==
  LET ends == {i \in 1..offset : text[i] \in {"\r", "\n"}}
  IN  IF ends = {} THEN 0 ELSE CHOOSE i \in ends : \A k \in ends : k <= i

\* C11: the raised error is positioned at the furthest failure: no
\* FailedExpectation of the root result has a shorter remainder than the one
\* the position is taken from, which is the remainder of one of them (the
\* whole input when the root result has none), found is its first character or nothing at end
\* of input, the offset is the input length less the remainder length, the
\* line is 1 plus the line terminators that begin before the offset (\r\n
\* being one), and the column is 1 plus the characters since the last one.
DiagnosticPosition ==
  (pc = "done" /\ outcome.kind = "throw") =>
    LET offset == Len(input) - Len(furthest)
        start == outcome.error.location.start
    IN  /\ \A i \in 1..Len(result.failedExpectations) :
             Len(result.failedExpectations[i].remainder) >= Len(furthest)
        /\ IF result.failedExpectations = <<>>
           THEN furthest = input
           ELSE \E i \in 1..Len(result.failedExpectations) :
                  result.failedExpectations[i].remainder = furthest
        /\ furthest = Slice(input, offset)
        /\ outcome.error.found = IF furthest = <<>> THEN <<>> ELSE <<furthest[1]>>
        /\ start.offset = offset
        /\ start.line = 1 + Cardinality({i \in 1..offset : TerminatorAt(input, i)})
        /\ start.column = 1 + offset - LineStart(input, offset)
        /\ outcome.error.location.end = start

\* an error on the third line, one character in, after a \r and a \r\n
ThirdLine ==
  /\ pc = "done"
  /\ outcome.kind = "throw"
  /\ grammar = GLines
  /\ input = <<"\r", "\r", "\n", "a">>
  /\ outcome.error.location.start = [offset |-> 4, line |-> 3, column |-> 2]
  /\ outcome.error.found = <<>>

\* the number of elements a repetition matches on a text, n being matched
\* already: every element after the first follows a delimiter if there is one,
\* and the count stops at the first failing attempt or at max
RECURSIVE Matched(_, _, _, _)
Matched(g, origin, text, n) ==
  LET delimiter == RepetitionDelimiter(origin)
      max == RepetitionMax(origin)
      due == delimiter # NoDelimiter /\ n > 0
      del == IF due THEN FunctionFrom(g, delimiter, text) ELSE Failure(text, <<>>)
      r == IF due /\ del.success THEN del.remainder ELSE text
      e == FunctionFrom(g, origin.expression, r)
  IN  IF max # NoMax /\ n >= max THEN n
      ELSE IF due /\ ~del.success THEN n
      ELSE IF ~e.success THEN n
      ELSE Matched(g, origin, e.remainder, n + 1)

OptionalAlwaysSucceeds ==
  (pc = "called" /\ call.node.type = "optional") =>
    LET e == FunctionFrom(Scope, call.node.expression, call.text)
    IN  /\ call.result.success
        /\ e.success =>
             /\ call.result.value = e.value
             /\ call.result.remainder = e.remainder
             /\ call.result.failedExpectations = e.failedExpectations
        /\ ~e.success =>
             /\ call.result.value = [null |-> TRUE]
             /\ call.result.remainder = call.text
             /\ call.result.failedExpectations = e.failedExpectations
             /\ e.failedExpectations # <<>>

\* "a"? on "b": null, nothing consumed, and the literal recorded as failed
OptionalAbsent ==
  /\ pc = "called"
  /\ call.node.type = "optional"
  /\ call.text = <<"b">>
  /\ call.result.success
  /\ call.result.value = [null |-> TRUE]
  /\ call.result.remainder = <<"b">>
  /\ Len(call.result.failedExpectations) = 1

\* C14: a negation consumes nothing: its result, success or failure, has the
\* text it was given as remainder, and it succeeds exactly when its expression
\* fails on that text.
NegationConsumesNothing ==
  (pc = "called" /\ call.node.type = "simple_not") =>
    /\ call.result.remainder = call.text
    /\ call.result.success <=>
         ~FunctionFrom(Scope, call.node.expression, call.text).success

\* !"ab" on "abb": the expression matches two characters, the negation fails
\* and leaves all three
NegationFailed ==
  /\ pc = "called"
  /\ call.node.type = "simple_not"
  /\ call.text = <<"a", "b", "b">>
  /\ ~call.result.success
  /\ call.result.remainder = <<"a", "b", "b">>

\* C15: the failure of a negation carries an Expectation of kind "other" at
\* the text the negation was given.
NegationExpectation ==
  (pc = "called" /\ call.node.type = "simple_not" /\ ~call.result.success) =>
    \E i \in 1..Len(call.result.failedExpectations) :
      /\ call.result.failedExpectations[i].expectation.type = "other"
      /\ call.result.failedExpectations[i].remainder = call.text

\* C17: when the expression of a named rule fails, the failure of the named
\* rule carries one Expectation, of kind "other" with the name, and none of
\* the expression's; when it succeeds the result is the expression's.
NamedReportsItself ==
  (pc = "called" /\ call.node.type = "named") =>
    LET e == FunctionFrom(Scope, call.node.expression, call.text)
    IN  /\ call.result.success <=> e.success
        /\ e.success => call.result = e
        /\ ~e.success =>
             /\ Len(call.result.failedExpectations) = 1
             /\ call.result.failedExpectations[1].expectation =
                  [type |-> "other", value |-> call.node.name]
             /\ \A i \in 1..Len(e.failedExpectations) :
                  e.failedExpectations[i].expectation #
                    call.result.failedExpectations[1].expectation

\* c "greeting" = ("a" "b" / "b") on "a.": three literals failed inside, one
\* Expectation reported
NamedFailed ==
  /\ pc = "called"
  /\ call.node.type = "named"
  /\ call.text = <<"a", ".">>
  /\ ~call.result.success
  /\ Len(FunctionFrom(Scope, call.node.expression, call.text).failedExpectations) = 2
  /\ Len(call.result.failedExpectations) = 1

\* C12: inside an action, offset() and range().start are the number of input
\* characters before the match of the action's expression, range().end the
\* number before its remainder, and text() the input between the two:
\* whether the match ends at end of input, before it, or is empty.
ActionAccessors ==
  (pc = "called" /\ call.node.type = "action" /\ call.result.success) =>
    LET e == FunctionFromInside(Scope, call.node.expression, call.text)
        start == Len(input) - Len(call.text)
        end == Len(input) - Len(e.remainder)
        value == call.result.value
    IN  /\ e.success
        /\ call.result.remainder = e.remainder
        /\ value.offset = start
        /\ value.range.start = start
        /\ value.range.end = end
        /\ value.text = SubSeq(input, start + 1, end)
        /\ Len(value.text) = end - start

\* the action of "b"* @(a:"a"* {...}) "b"? on the last two characters of
\* "baa": the match ends at end of input
ActionAtEnd ==
  /\ pc = "called"
  /\ call.node.type = "action"
  /\ input = <<"b", "a", "a">>
  /\ call.text = <<"a", "a">>
  /\ call.result.success
  /\ call.result.value.text = <<"a", "a">>
  /\ call.result.value.range.end = 3

\* C18: wherever a pattern is synthesized, it yields what the procedure of
\* the expression yields: for $e, the same success, captured text and
\* remainder as the text the procedure of e consumes; for a sequence element
\* replaced by a pattern, the same success and remainder as its procedure.
PatternIsOptimization ==
  /\ (pc = "called" /\ call.node.type = "text"
        /\ CanRepresent(Scope, call.node.expression, {})) =>
       LET combinator == Extract(Scope, call.node.expression, call.text)
       IN  /\ call.result.success = combinator.success
           /\ combinator.success =>
                /\ call.result.value = combinator.value
                /\ call.result.remainder = combinator.remainder
  /\ (pc = "called" /\ call.node.type = "sequence") =>
       \A i \in 1..Len(call.node.elements) :
         Replaced(Scope, call.node.elements, i, FALSE) =>
           LET matches == StringMatch(toRegExpString(Scope, call.node.elements[i]),
                                      call.text)
               combinator == FunctionFrom(Scope, call.node.elements[i], call.text)
           IN  /\ Len(matches) = 1 <=> combinator.success
               /\ combinator.success =>
                    Slice(call.text, Len(matches[1])) = combinator.remainder

\* what a node holds at the i-th place of its location
Child(origin, i) ==
  CASE origin.type = "choice" -> origin.alternatives[i]
    [] origin.type = "sequence" -> origin.elements[i]
    [] origin.type = "repeated" /\ i = 2 -> origin.delimiter
    [] OTHER -> origin.expression

RECURSIVE Below(_, _)
Below(origin, path) ==
  IF path = <<>> THEN origin ELSE Below(Child(origin, Head(path)), Tail(path))

\* the node of the grammar whose location a function has as its source
OriginAt(g, location) == Below(g.rules[Head(location)], Tail(location))

\* the functions toTypeScript lowered from the nodes of the grammar
Lowered == {n \in 1..Len(registry) : /\ IsFunction(registry[n])
                                      /\ registry[n].source # <<>>}

\* C19: once toTypeScript has run, two occurrences of an identical
\* sub-expression at different source locations are lowered to the same
\* procedure: whatever invokes either occurrence calls one and the same
\* definition.
IdenticalShared ==
  outputs # <<>> =>
    \A m, n \in Lowered :
      OriginAt(grammar, registry[m].source) = OriginAt(grammar, registry[n].source)
        => toCode(registry, m) = toCode(registry, n)

RECURSIVE Threaded(_, _, _, _, _, _)
Threaded(g, elements, i, remainder, failedExpectations, values) ==
  IF i > Len(elements)
  THEN Success(IF PickIndex(elements) # 0 THEN values[PickIndex(elements)]
               ELSE ArrayValue(values),
               remainder, failedExpectations)
  ELSE LET res == FunctionFrom(g, elements[i], remainder)
           pushed == failedExpectations \o res.failedExpectations
       IN  IF ~res.success THEN Failure(res.remainder, pushed)
           ELSE Threaded(g, elements, i + 1, res.remainder, pushed,
                         Append(values, res.value))

\* C22: a sequence succeeds exactly when its elements, invoked left to right
\* each on the remainder of the one before, all succeed; it then has the
\* remainder of the last element and the value of the picked element, or the
\* tuple of all values when there is no pick; when an element fails it fails
\* with the FailedExpectations of the elements up to that one.
SequenceContract ==
  (pc = "called" /\ call.node.type = "sequence") =>
    LET threaded == Threaded(Scope, call.node.elements, 1, call.text, <<>>, <<>>)
    IN  /\ call.result.success <=> threaded.success
        /\ call.result.success =>
             /\ call.result.value = threaded.value
             /\ call.result.remainder = threaded.remainder
        /\ ~call.result.success =>
             call.result.failedExpectations = threaded.failedExpectations

\* every FailedExpectation of inner is one of outer
Collected(inner, outer) ==
  \A i \in 1..Len(inner) : \E j \in 1..Len(outer) : outer[j] = inner[i]

\* C23: the FailedExpectations of an invocation are collected upward: the
\* result of the root has those of the invocation of the first rule, also when
\* it fails for input left over, and the result of a successful action or
\* text capture has those of the invocation of its expression.
ExpectationsCollected ==
  /\ pc = "rooted" =>
       Collected(FunctionFrom(Scope, grammar.rules[1], input).failedExpectations,
                 result.failedExpectations)
  /\ (pc = "called" /\ call.node.type \in {"action", "text"}
        /\ call.result.success) =>
       Collected(FunctionFrom(Scope, call.node.expression, call.text).failedExpectations,
                 call.result.failedExpectations)

\* C24: a procedure whose allowsZeroLength is false never succeeds with the
\* text it was given as remainder, and a literal has the flag false only if
\* it is not empty.
ZeroLengthFlag ==
  (pc = "called" /\ ~AllowsZeroLength(Scope, call.node)) =>
    /\ call.result.success => call.result.remainder # call.text
    /\ call.node.type = "literal" => call.node.value # <<>>

\* C25: the remainder of the result of an invocation is a suffix of the text
\* it was invoked on, the whole text exactly when nothing was consumed, and so
\* is the remainder of every FailedExpectation of the result; those of the
\* root are suffixes of the input of parse, so that input.length minus
\* remainder.length is an offset into the input.
RemainderIsSuffix ==
  /\ pc = "called" =>
       /\ call.result.remainder \in Suffixes(call.text)
       /\ \A i \in 1..Len(call.result.failedExpectations) :
            call.result.failedExpectations[i].remainder \in Suffixes(call.text)
  /\ pc \in {"rooted", "scanned", "done"} =>
       /\ result.remainder \in Suffixes(input)
       /\ \A i \in 1..Len(result.failedExpectations) :
            LET offset == Len(input) - Len(result.failedExpectations[i].remainder)
            IN  /\ result.failedExpectations[i].remainder = Slice(input, offset)
                /\ offset \in 0..Len(input)
  /\ pc \in {"scanned", "done"} => furthest \in Suffixes(input)

\* [a-b]* "." on "ac" inside "aac": the failure and both its FailedExpectations
\* are at "c", a proper suffix of the text and of the input
FailedInside ==
  /\ pc = "called"
  /\ grammar = GStar
  /\ input = <<"a", "a", "c">>
  /\ call.node.type = "sequence"
  /\ call.text = <<"a", "c">>
  /\ ~call.result.success
  /\ call.result.remainder = <<"c">>
  /\ Len(call.result.failedExpectations) = 2
  /\ \A i \in 1..2 : call.result.failedExpectations[i].remainder = <<"c">>

OneProcedurePerRule ==
  outputs # <<>> =>
    /\ \A r \in 1..Len(grammar.rules) :
         Cardinality({n \in 1..Len(registry) :
                        /\ registry[n].class = "Rule"
                        /\ registry[n].source = <<r>>}) = 1
    /\ \A m, n \in 1..Len(registry) :
         (/\ registry[m].class \notin {"Expectation", "Interface", "Code"}
          /\ registry[n].class \notin {"Expectation", "Interface", "Code"}
          /\ registry[m].source = registry[n].source) => m = n

\* start = "a" b / "c" b; b = "b" start / "d" is lowered: the sequence
\* "b" start of rule b calls the procedure of start, which was made before it
\* and had not returned from its constructor, and both references to b are to
\* one procedure
MutualLowered ==
  /\ grammar = GMutual
  /\ outputs # <<>>
  /\ \E s, b, m, n, k \in 1..Len(registry) :
       /\ registry[s].class = "Rule" /\ registry[s].source = <<1>>
       /\ registry[b].class = "Rule" /\ registry[b].source = <<2>>
       /\ registry[m].class = "Sequence" /\ registry[m].source = <<2, 1, 1>>
       /\ registry[m].calls[2] = s /\ s < m
       /\ registry[n].class = "Sequence" /\ registry[n].source = <<1, 1, 1>>
       /\ registry[k].class = "Sequence" /\ registry[k].source = <<1, 1, 2>>
       /\ registry[n].calls[2] = b /\ registry[k].calls[2] = b

\* a subtree holds an action, a reference to a rule the way to it has gone
\* through, or a class with the i flag that is not the subtree itself
RECURSIVE Unpatterned(_, _, _, _)
Unpatterned(g, origin, rules, outermost) ==
  CASE origin.type = "action" -> TRUE
    [] origin.type = "rule_ref" ->
         \/ origin.name \in rules
         \/ Unpatterned(g, FindRule(g, origin.name).expression,
                        rules \cup {origin.name}, FALSE)
    [] origin.type = "class" -> origin.ignoreCase /\ ~outermost
    [] origin.type \in {"literal", "any"} -> FALSE
    [] origin.type = "choice" ->
         \E i \in 1..Len(origin.alternatives) :
           Unpatterned(g, origin.alternatives[i], rules, FALSE)
    [] origin.type = "sequence" ->
         \E i \in 1..Len(origin.elements) :
           Unpatterned(g, origin.elements[i], rules, FALSE)
    [] origin.type = "repeated" ->
         \/ Unpatterned(g, origin.expression, rules, FALSE)
         \/ /\ origin.delimiter # NoDelimiter
            /\ Unpatterned(g, origin.delimiter, rules, FALSE)
    [] OTHER -> Unpatterned(g, origin.expression, rules, FALSE)

\* the location of the node whose procedure stands for the node at location:
\* a group stands for its expression and a reference for its rule
RECURSIVE Resolved(_, _)
Resolved(g, location) ==
  LET origin == OriginAt(g, location)
  IN  CASE origin.type = "group" -> Resolved(g, Append(location, 1))
        [] origin.type = "rule_ref" -> <<RuleIndex(g, origin.name)>>
        [] OTHER -> location

\* the procedure lowered from the node at location is called by the n-th
\* Reusable
Calls(n, location) ==
  \E k \in 1..Len(registry[n].calls) :
    registry[registry[n].calls[k]].source = Resolved(grammar, location)

\* C28: toTypeScript returns on every grammar, and where the expression of a
\* text capture, or an element of a sequence that its pick leaves without a
\* value, holds an action, a reference back into the way to it or a nested
\* class with the i flag, the procedure emitted for the capture or the
\* sequence calls the procedure of that expression or element instead of
\* matching a pattern.
PatternFallback ==
  outputs # <<>> =>
    \A n \in Lowered :
      LET origin == OriginAt(grammar, registry[n].source)
      IN  /\ (registry[n].class = "Text"
                /\ Unpatterned(grammar, origin.expression, {}, TRUE)) =>
               /\ Len(registry[n].calls) = 1
               /\ Calls(n, Append(registry[n].source, 1))
          /\ (registry[n].class = "Sequence" /\ PickIndex(origin.elements) # 0) =>
               \A i \in 1..Len(origin.elements) :
                 (/\ i # PickIndex(origin.elements)
                  /\ Unpatterned(grammar, origin.elements[i], {}, TRUE)) =>
                   Calls(n, Append(registry[n].source, i))

\* the pass has returned on the grammar of x1 to x6: the captures of x1, x2
\* and x3 call the procedure of their expression, those of x5 and x6 call
\* none, and the sequence of x4 calls the action and the pick
CapturesLowered ==
  /\ grammar = GCapture
  /\ outputs # <<>>
  /\ \A r \in {2, 3, 4} :
       \E n \in Lowered : /\ registry[n].class = "Text"
                          /\ registry[n].source = <<r, 1>>
                          /\ Len(registry[n].calls) = 1
  /\ \A r \in {6, 7} :
       \E n \in Lowered : /\ registry[n].class = "Text"
                          /\ registry[n].source = <<r, 1>>
                          /\ registry[n].calls = <<>>
  /\ \E n \in Lowered : /\ registry[n].class = "Sequence"
                         /\ registry[n].source = <<5, 1>>
                         /\ Len(registry[n].calls) = 2

\* the structure of a type object; an unknown type is owned by its object
\* where owned, and is the one unknown type otherwise
RECURSIVE Structure(_, _, _)
Structure(types, object, owned) ==
  LET type == types[object]
  IN  CASE type.class = "NoType" -> NoType(IF owned THEN object ELSE NotFound)
        [] type.class = "SimpleType" -> SimpleType(type.value)
        [] type.class = "LiteralType" -> LiteralType(type.literal)
        [] type.class = "FailureType" -> FailureType
        [] type.class = "SuccessType" ->
             SuccessType(Structure(types, type.subtype, owned))
        [] type.class = "ArrayType" -> ArrayType(Structure(types, type.type, owned))
        [] type.class = "UnionType" ->
             [union |-> {Structure(types, type.types[k], owned) :
                           k \in 1..Len(type.types)}]

\* C29: after any sequence of requests for types, two type objects of one
\* structure are one object, the unknown type among them, a union whatever
\* the order of its members, and there is one FailureType
TypesCanonical ==
  /\ \A m, n \in 1..Len(registry) :
       Structure(registry, m, FALSE) = Structure(registry, n, FALSE) => m = n
  /\ \A n \in 1..Len(registry) :
       registry[n].class = "FailureType" => n = FailureSingleton

\* a union object in normal form: two members or more, none a union, none
\* twice, one Success at most
Normal(types, object) ==
  LET members == types[object].types
  IN  /\ Len(members) >= 2
      /\ \A k \in 1..Len(members) : types[members[k]].class # "UnionType"
      /\ \A j, k \in 1..Len(members) : members[j] = members[k] => j = k
      /\ Cardinality({k \in 1..Len(members) :
                        types[members[k]].class = "SuccessType"}) <= 1

\* C30: every union object is in normal form, and for every argument list
\* UnionType.from throws exactly when the flattened list is empty and
\* otherwise returns the type whose structure is the normalised union of
\* the arguments: the single member itself when one remains, the Success
\* members merged into one Success of the union of their subtypes
UnionNormalForm ==
  /\ \A n \in 1..Len(registry) :
       registry[n].class = "UnionType" => Normal(registry, n)
  /\ \A rawTypes \in Arguments(registry) :
       \E made \in {UnionTypeFrom(registry, rawTypes)} :
         /\ (made.object = Thrown) <=> (Flattened(registry, rawTypes) = <<>>)
         /\ made.object # Thrown =>
              /\ Structure(made.types, made.object, TRUE) =
                   UnionType({Structure(registry, rawTypes[k], TRUE) :
                                k \in 1..Len(rawTypes)})
              /\ SubSeq(made.types, 1, Len(registry)) = registry
              /\ \A n \in 1..Len(made.types) :
                   made.types[n].class = "UnionType" => Normal(made.types, n)

\* a request was answered with the Success of a union: two Success members
\* were merged into it
SuccessesMerged ==
  /\ outputs # <<>>
  /\ outputs[1] = Len(registry)
  /\ registry[outputs[1]].class = "SuccessType"
  /\ registry[outputs[1]].subtype = Len(registry) - 1
  /\ registry[registry[outputs[1]].subtype].class = "UnionType"

====
